---------------------------- MODULE Spec2Model ----------------------------
(***************************************************************************)
(* State-machine model of the SwitchPrint bridge service                   *)
(* (backend/python_bridge/switchprint_service.py).                         *)
(*                                                                         *)
(* Strings that the code slices, joins or splits (texts, language names,   *)
(* performance modes, cache keys) are sequences of one-character strings.  *)
(* Labels that the code only compares (version tags, quality labels) are   *)
(* TLA+ strings.  Confidences are integer hundredths (0.85 is 85).         *)
(* A Python value that may be None is <<>> for None and <<x>> for x.       *)
(***************************************************************************)
EXTENDS Integers, Sequences, FiniteSets, TLC

(***************************************************************************)
(* Bounds of the model.                                                    *)
(***************************************************************************)
\* analyze_text calls are started only while total_requests < MaxCalls
MaxCalls == 5
\* stand-in for the cache ceiling, 1000 in the source (line 219)
CacheCeiling == 3
\* stand-in for the eviction batch, 100 in the source (line 221)
EvictBatch == 2

Threads == {"t1", "t2"}

None == <<>>
Some(x) == <<x>>

Range(s) == {s[i] : i \in 1..Len(s)}

(***************************************************************************)
(* Character strings.                                                      *)
(***************************************************************************)
Upper == <<"A","B","C","D","E","F","G","H","I","J","K","L","M",
           "N","O","P","Q","R","S","T","U","V","W","X","Y","Z">>
LowerCase == <<"a","b","c","d","e","f","g","h","i","j","k","l","m",
               "n","o","p","q","r","s","t","u","v","w","x","y","z">>

\* str.lower(), one character
LowerChar(c) ==
    IF \E i \in 1..26 : Upper[i] = c
    THEN LowerCase[CHOOSE i \in 1..26 : Upper[i] = c]
    ELSE c

\* str.lower()
Lower(s) == [i \in 1..Len(s) |-> LowerChar(s[i])]

IsSpace(c) == c \in {" ", "\t", "\n", "\r"}

\* str.split() with no argument: maximal runs of non-whitespace characters
RECURSIVE SplitFrom(_, _, _, _)
SplitFrom(s, i, cur, acc) ==
    IF i > Len(s)
    THEN IF cur = <<>> THEN acc ELSE Append(acc, cur)
    ELSE IF IsSpace(s[i])
         THEN SplitFrom(s, i + 1, <<>>, IF cur = <<>> THEN acc ELSE Append(acc, cur))
         ELSE SplitFrom(s, i + 1, Append(cur, s[i]), acc)

Split(s) == SplitFrom(s, 1, <<>>, <<>>)

\* sep.join(parts)
RECURSIVE Join(_, _)
Join(parts, sep) ==
    IF parts = <<>> THEN <<>>
    ELSE IF Len(parts) = 1 THEN parts[1]
    ELSE parts[1] \o sep \o Join(Tail(parts), sep)

\* str.strip() leaves nothing
IsBlank(s) == \A i \in 1..Len(s) : IsSpace(s[i])

(***************************************************************************)
(* Literals of the source.                                                 *)
(***************************************************************************)
english == <<"e","n","g","l","i","s","h">>
spanish == <<"s","p","a","n","i","s","h">>
Spanish == <<"S","p","a","n","i","s","h">>
unknown == <<"u","n","k","n","o","w","n">>
balanced == <<"b","a","l","a","n","c","e","d">>
fast == <<"f","a","s","t">>
legacy == <<"l","e","g","a","c","y">>

\* the literal "v2.1.2:" that starts every cache key (line 167)
KeyPrefix == <<"v","2",".","1",".","2",":">>

\* f"v2.1.2:{text}:{','.join(user_languages or [])}:{performance_mode}"
CacheKey(text, user_languages, performance_mode) ==
    KeyPrefix \o text \o <<":">> \o Join(user_languages, <<",">>)
              \o <<":">> \o performance_mode

(***************************************************************************)
(* Result normalizer.                                                      *)
(***************************************************************************)
\* Python's "user_languages and language in user_languages": the operand
\* itself when user_languages is falsy (the empty list), else the membership
PyAndIn(user_languages, language) ==
    IF user_languages = <<>> THEN "[]"
    ELSE IF language \in Range(user_languages) THEN "True" ELSE "False"

Token(word, lang, confidence) ==
    [word |-> word, lang |-> lang, language |-> lang, confidence |-> confidence]

\* faulty variant: endIndex one past the last word of the phrase
FinalizePhraseWide(cur, confidence, user_languages) ==
    [words |-> cur.words,
     language |-> cur.language,
     startIndex |-> cur.startIndex,
     text |-> Join(cur.words, <<" ">>),
     confidence |-> confidence,
     endIndex |-> cur.startIndex + Len(cur.words),
     isUserLanguage |-> IF user_languages = <<>> THEN "[]"
                        ELSE IF cur.language \in Range(user_languages)
                             THEN "True" ELSE "False"]

\* current_phrase.update({...}) of the phrase loop
FinalizePhrase(cur, confidence, user_languages) ==
    [words |-> cur.words,
     language |-> cur.language,
     startIndex |-> cur.startIndex,
     text |-> Join(cur.words, <<" ">>),
     confidence |-> confidence,
     endIndex |-> cur.startIndex + Len(cur.words) - 1,
     isUserLanguage |-> PyAndIn(user_languages, cur.language)]

\* the phrase loop: "for i in range(1, len(tokens))"; i is the 1-based
\* position of tokens[i - 1]
RECURSIVE GroupFrom(_, _, _, _, _, _)
GroupFrom(tokens, i, cur, acc, confidence, user_languages) ==
    IF i > Len(tokens)
    THEN Append(acc, FinalizePhrase(cur, confidence, user_languages))
    ELSE IF tokens[i].lang = cur.language
         THEN GroupFrom(tokens, i + 1,
                        [cur EXCEPT !.words = Append(@, tokens[i].word)],
                        acc, confidence, user_languages)
         ELSE GroupFrom(tokens, i + 1,
                        [words |-> <<tokens[i].word>>,
                         language |-> tokens[i].lang,
                         startIndex |-> i - 1],
                        Append(acc, FinalizePhrase(cur, confidence, user_languages)),
                        confidence, user_languages)

GroupPhrases(tokens, confidence, user_languages) ==
    IF tokens = <<>> THEN <<>>
    ELSE GroupFrom(tokens, 2,
                   [words |-> <<tokens[1].word>>,
                    language |-> tokens[1].lang,
                    startIndex |-> 0],
                   <<>>, confidence, user_languages)

\* any(ul.lower() in [dl.lower() for dl in detected] for ul in user_languages)
UserLanguageMatch(user_languages, detected) ==
    /\ user_languages # <<>>
    /\ detected # <<>>
    /\ \E u \in Range(user_languages) :
          Lower(u) \in {Lower(d) : d \in Range(detected)}

\* faulty variant: a switch point at index 0 is ignored
RECURSIVE CyclicLangsAfterFirst(_, _, _, _, _)
CyclicLangsAfterFirst(i, n, idx, detected, switch_points) ==
    IF i >= n THEN <<>>
    ELSE LET idx2 == IF i > 0 /\ i \in Range(switch_points)
                     THEN (idx + 1) % Len(detected) ELSE idx
         IN  <<detected[idx2 + 1]>>
                 \o CyclicLangsAfterFirst(i + 1, n, idx2, detected, switch_points)

\* faulty variant: the language index wraps around instead of stopping
RECURSIVE ClampedLangsWrapping(_, _, _, _, _)
ClampedLangsWrapping(i, n, idx, detected, switch_points) ==
    IF i >= n THEN <<>>
    ELSE LET idx2 == IF i \in Range(switch_points)
                     THEN (idx + 1) % Len(detected) ELSE idx
         IN  <<detected[idx2 + 1]>>
                 \o ClampedLangsWrapping(i + 1, n, idx2, detected, switch_points)

\* primary tier: the language index advances cyclically at each word whose
\* index is in switch_points; i is the 0-based word index
RECURSIVE CyclicLangs(_, _, _, _, _)
CyclicLangs(i, n, idx, detected, switch_points) ==
    IF i >= n THEN <<>>
    ELSE LET idx2 == IF i \in Range(switch_points)
                     THEN (idx + 1) % Len(detected) ELSE idx
         IN  <<detected[idx2 + 1]>>
                 \o CyclicLangs(i + 1, n, idx2, detected, switch_points)

\* legacy tier: the language index advances and stops at the last language
RECURSIVE ClampedLangs(_, _, _, _, _)
ClampedLangs(i, n, idx, detected, switch_points) ==
    IF i >= n THEN <<>>
    ELSE LET idx2 == IF i \in Range(switch_points) /\ idx < Len(detected) - 1
                     THEN idx + 1 ELSE idx
             lang == IF idx2 < Len(detected) THEN detected[idx2 + 1]
                     ELSE detected[1]
         IN  <<lang>> \o ClampedLangs(i + 1, n, idx2, detected, switch_points)

FirstLang(detected) == IF detected # <<>> THEN detected[1] ELSE unknown

\* the "2.1.2" of line 34 and of the dataclass default of line 68
V2_1_2 == "2.1.2"

\* module constant SWITCHPRINT_VERSION for a given import outcome
VersionOf(available) == IF available THEN V2_1_2 ELSE "unavailable"

_convert_v2_1_2_result(sp_result, optimization_result, text, user_languages, performance_mode, version) ==
    LET words == Split(text)
        detected == sp_result.detected_languages
        sps == sp_result.switch_points
        cal == sp_result.calibrated_confidence
        langs == IF Len(detected) > 1 /\ sps # <<>>
                 THEN CyclicLangs(0, Len(words), 0, detected, sps)
                 ELSE [i \in 1..Len(words) |-> FirstLang(detected)]
        tokens == [i \in 1..Len(words) |-> Token(words[i], langs[i], cal)]
    IN  [tokens |-> tokens,
         phrases |-> GroupPhrases(tokens, cal, user_languages),
         switch_points |-> sps,
         confidence |-> sp_result.original_confidence,
         user_language_match |-> UserLanguageMatch(user_languages, detected),
         detected_languages |-> detected,
         cache_hit |-> FALSE,
         calibrated_confidence |-> cal,
         reliability_score |-> sp_result.reliability_score,
         quality_assessment |-> sp_result.quality_assessment,
         calibration_method |-> sp_result.calibration_method,
         context_optimization |->
             IF optimization_result # None THEN optimization_result ELSE None,
         performance_mode |-> performance_mode,
         version |-> version]

\* a legacy switch point is an index or an (index, language) pair
LegacyIndices(legacy_switch_points) ==
    [i \in 1..Len(legacy_switch_points) |-> legacy_switch_points[i].index]

_convert_legacy_result(sp_result, text, user_languages) ==
    LET words == Split(text)
        detected == sp_result.detected_languages
        sps == LegacyIndices(sp_result.switch_points)
        conf == sp_result.confidence
        langs == IF Len(detected) > 1 /\ sps # <<>>
                 THEN ClampedLangs(0, Len(words), 0, detected, sps)
                 ELSE [i \in 1..Len(words) |-> FirstLang(detected)]
        tokens == [i \in 1..Len(words) |-> Token(words[i], langs[i], conf)]
    IN  [tokens |-> tokens,
         phrases |-> GroupPhrases(tokens, conf, user_languages),
         switch_points |-> sps,
         confidence |-> conf,
         user_language_match |-> UserLanguageMatch(user_languages, detected),
         detected_languages |-> detected,
         cache_hit |-> FALSE,
         calibrated_confidence |-> conf,
         reliability_score |-> 0,
         quality_assessment |-> "legacy",
         calibration_method |-> "none",
         context_optimization |-> None,
         performance_mode |-> legacy,
         version |-> "legacy"]

_get_mock_result(text, user_languages) ==
    LET words == Split(text)
        mock_lang == IF user_languages = <<>> THEN english ELSE user_languages[1]
    IN  [tokens |-> [i \in 1..Len(words) |-> Token(words[i], mock_lang, 85)],
         phrases |-> <<[words |-> words,
                        text |-> text,
                        language |-> mock_lang,
                        confidence |-> 85,
                        startIndex |-> 0,
                        endIndex |-> Len(words) - 1,
                        isUserLanguage |-> "True"]>>,
         switch_points |-> <<>>,
         confidence |-> 85,
         user_language_match |-> TRUE,
         detected_languages |-> <<mock_lang>>,
         cache_hit |-> FALSE,
         \* the dataclass defaults of lines 62-68
         calibrated_confidence |-> 0,
         reliability_score |-> 0,
         quality_assessment |-> "unknown",
         calibration_method |-> "none",
         context_optimization |-> None,
         performance_mode |-> balanced,
         version |-> V2_1_2]

(***************************************************************************)
(* Inputs of the model: requests and the outputs of the external           *)
(* detectors.                                                              *)
(***************************************************************************)
\* the (text, user_languages, performance_mode) of a request
Request(text, user_languages, performance_mode) ==
    [text |-> text, user_languages |-> user_languages,
     performance_mode |-> performance_mode]

RequestSeq ==
    <<Request(<<"a", " ", "b">>, <<>>, balanced),
      Request(<<"a", " ", "b">>, <<spanish>>, fast),
      Request(<<"c">>, <<>>, fast),
      Request(<<"c">>, <<spanish>>, balanced)>>

Requests == Range(RequestSeq)

\* IntegratedImprovedDetector.detect_language results
PrimaryOutputs ==
    {[original_confidence |-> 70, calibrated_confidence |-> 80,
      reliability_score |-> 90, quality_assessment |-> "high",
      calibration_method |-> "isotonic",
      detected_languages |-> d[1], switch_points |-> d[2]] :
        d \in {<<<<english, spanish>>, <<1>>>>}}

\* EnsembleDetector / FastTextDetector detect_language results
LegacyOutputs ==
    {[confidence |-> 60, detected_languages |-> <<english, spanish>>,
      switch_points |-> <<[tuple |-> TRUE, index |-> 1]>>]}

\* ContextWindowOptimizer.optimize_detection result, as the dict of lines 316-322
OptimizationResult ==
    [text_type |-> "mixed", optimal_window_size |-> 3, improvement_score |-> 10,
     context_enhanced_confidence |-> 80, optimization_applied |-> TRUE]

(***************************************************************************)
(* State.                                                                  *)
(***************************************************************************)
VARIABLES
    SWITCHPRINT_AVAILABLE,  \* the import of lines 19-38 succeeded
    integrated_detector,    \* self.<x> is not None, for each component
    context_detector,
    batch_processor,
    metrics_dashboard,
    context_optimizer,
    legacy_detector,
    fasttext_detector,
    cache,                  \* self.cache: entries in insertion order
    cache_hits,
    total_requests,
    pc,                     \* per thread: position in analyze_text
    frame,                  \* per thread: arguments and locals of the call
    hist,                   \* per thread: which stages the call went through
    model,                  \* FastText worker: self.model, None until loaded
    stdin,                  \* worker: the request lines not yet read
    stdout,                 \* worker: the lines printed so far
    wpc,                    \* worker: position in main
    consumed,               \* worker: the lines read so far
    mapped                  \* worker: the values the language mapper was given and returned

service == <<integrated_detector, context_detector, batch_processor,
             metrics_dashboard, context_optimizer, legacy_detector,
             fasttext_detector>>
\* the worker is a process of its own (fasttext_worker.py)
worker == <<model, stdin, stdout, wpc, consumed, mapped>>
vars == <<SWITCHPRINT_AVAILABLE, service, cache, cache_hits, total_requests,
          pc, frame, hist, worker>>

\* the worker process has not been started
WorkerAbsent ==
    /\ model = None
    /\ stdin = <<>>
    /\ stdout = <<>>
    /\ wpc = "absent"
    /\ consumed = <<>>
    /\ mapped = <<>>

SWITCHPRINT_VERSION == VersionOf(SWITCHPRINT_AVAILABLE)

\* the dict self.cache, ordered by insertion
Keys(c) == [i \in 1..Len(c) |-> c[i].key]
HasKey(c, k) == \E i \in 1..Len(c) : c[i].key = k
Get(c, k) == c[CHOOSE i \in 1..Len(c) : c[i].key = k].value
\* faulty variant: the assignment stores nothing
PutNothing(c, k, v) == c

\* c[k] = v: a present key keeps its position
Put(c, k, v) ==
    IF HasKey(c, k)
    THEN [i \in 1..Len(c) |-> IF c[i].key = k THEN [key |-> k, value |-> v] ELSE c[i]]
    ELSE Append(c, [key |-> k, value |-> v])
\* del c[k]
Del(c, k) == SelectSeq(c, LAMBDA e : e.key # k)
\* faulty variant: the newest keys, list(c.keys())[-n:]
LastKeys(c, n) == SubSeq([i \in 1..Len(c) |-> c[i].key], IF Len(c) < n THEN 1 ELSE Len(c) - n + 1, Len(c))

\* list(c.keys())[:n]
FirstKeys(c, n) == SubSeq(Keys(c), 1, IF Len(c) < n THEN Len(c) ELSE n)

NoFrame ==
    [text |-> <<>>, user_languages |-> <<>>, use_cache |-> FALSE,
     fast_mode |-> FALSE, performance_mode |-> <<>>, tmp |-> 0,
     sp_result |-> None, optimization_result |-> None, result |-> None,
     oldest_keys |-> <<>>]

NoHist == [tier |-> "none", tried |-> <<>>, raised |-> {}, called |-> {},
           cache0 |-> <<>>, alias |-> FALSE]

KeyOf(t) == CacheKey(frame[t].text, frame[t].user_languages, frame[t].performance_mode)

\* Object identity.  hist[u].alias tells that the result thread u holds is
\* the very object the cache holds under u's key: it was stored by u (line
\* 217) or read by u on a hit (line 170), and the entry was neither
\* replaced nor deleted since.
Aliased(u, key) == hist[u].alias /\ KeyOf(u) = key
\* the entry of key leaves the cache, or is replaced by another object
Unaliased(h, key) ==
    [u \in Threads |-> IF Aliased(u, key) THEN [h[u] EXCEPT !.alias = FALSE] ELSE h[u]]

\* SwitchPrintService.__init__: the constructors run in order inside one
\* try; built is the number that completed before one raised (7: none
\* raised).  The except clause resets integrated_detector only.
Init ==
    \E available \in BOOLEAN, built \in 0..7 :
        /\ (~available => built = 0)
        /\ SWITCHPRINT_AVAILABLE = available
        /\ integrated_detector = (built = 7)
        /\ context_detector = (built >= 2)
        /\ batch_processor = (built >= 3)
        /\ metrics_dashboard = (built >= 4)
        /\ context_optimizer = (built >= 5)
        /\ legacy_detector = (built >= 6)
        /\ fasttext_detector = (built >= 7)
        /\ cache = <<>>
        /\ cache_hits = 0
        /\ total_requests = 0
        /\ pc = [t \in Threads |-> "idle"]
        /\ frame = [t \in Threads |-> NoFrame]
        /\ hist = [t \in Threads |-> NoHist]
        /\ WorkerAbsent

(***************************************************************************)
(* analyze_text, one step per access to the shared service state or call   *)
(* of an external component.                                               *)
(***************************************************************************)
Goto(t, label) == pc' = [pc EXCEPT ![t] = label]

\* "return result": the call is over and result is what the caller gets
ReturnWith(t, result, tier) ==
    /\ frame' = [frame EXCEPT ![t].result = Some(result)]
    /\ hist' = [hist EXCEPT ![t].tier = tier]
    /\ Goto(t, "done")

\* lines 162-164: entry, and the read of self.total_requests for "+= 1"
Call(t, requests, flags) ==
    /\ pc[t] = "idle"
    /\ total_requests < MaxCalls
    /\ \E r \in requests, use_cache \in flags :
          frame' = [frame EXCEPT ![t] =
                       [NoFrame EXCEPT !.text = r.text,
                                       !.user_languages = r.user_languages,
                                       !.performance_mode = r.performance_mode,
                                       !.use_cache = use_cache,
                                       !.tmp = total_requests]]
    /\ hist' = [hist EXCEPT ![t] = [NoHist EXCEPT !.cache0 = cache]]
    /\ Goto(t, "count")
    /\ UNCHANGED <<worker, SWITCHPRINT_AVAILABLE, service, cache, cache_hits, total_requests>>

\* line 164: the write of self.total_requests
Count(t) ==
    /\ pc[t] = "count"
    /\ total_requests' = frame[t].tmp + 1
    /\ Goto(t, "lookup")
    /\ UNCHANGED <<worker, SWITCHPRINT_AVAILABLE, service, cache, cache_hits, frame, hist>>

\* faulty variant: the cache is consulted whatever use_cache says
LookupAlways(t) ==
    /\ pc[t] = "lookup"
    /\ IF HasKey(cache, KeyOf(t))
       THEN /\ frame' = [frame EXCEPT ![t].tmp = cache_hits]
            /\ Goto(t, "hit_count")
       ELSE /\ frame' = frame
            /\ Goto(t, IF integrated_detector THEN "primary" ELSE "fallback")
    /\ UNCHANGED <<worker, SWITCHPRINT_AVAILABLE, service, cache, cache_hits, total_requests, hist>>

\* lines 167-169 and 176: the membership test, then on a hit the read of
\* self.cache_hits, on a miss the choice of the primary or the fallback path
Lookup(t) ==
    /\ pc[t] = "lookup"
    /\ IF frame[t].use_cache /\ HasKey(cache, KeyOf(t))
       THEN /\ frame' = [frame EXCEPT ![t].tmp = cache_hits]
            /\ Goto(t, "hit_count")
       ELSE /\ frame' = frame
            /\ Goto(t, IF integrated_detector THEN "primary" ELSE "fallback")
    /\ UNCHANGED <<worker, SWITCHPRINT_AVAILABLE, service, cache, cache_hits, total_requests, hist>>

\* line 169: the write of self.cache_hits
HitCount(t) ==
    /\ pc[t] = "hit_count"
    /\ cache_hits' = frame[t].tmp + 1
    /\ Goto(t, "hit_get")
    /\ UNCHANGED <<worker, SWITCHPRINT_AVAILABLE, service, cache, total_requests, frame, hist>>

\* faulty variant: a hit makes the entry the newest one
HitGetRefreshing(t) ==
    /\ pc[t] = "hit_get"
    /\ IF HasKey(cache, KeyOf(t))
       THEN LET result == [Get(cache, KeyOf(t)) EXCEPT !.cache_hit = TRUE]
            IN  /\ cache' = Append(Del(cache, KeyOf(t)), [key |-> KeyOf(t), value |-> result])
                /\ frame' = [u \in Threads |->
                                 IF u = t \/ Aliased(u, KeyOf(t))
                                 THEN [frame[u] EXCEPT !.result = Some(result)]
                                 ELSE frame[u]]
                /\ hist' = [hist EXCEPT ![t].tier = "cache", ![t].alias = TRUE]
                /\ Goto(t, "done")
       ELSE /\ cache' = cache
            /\ hist' = [hist EXCEPT ![t].raised = @ \cup {"cache_get"}]
            /\ Goto(t, "raised")
            /\ frame' = frame
    /\ UNCHANGED <<worker, SWITCHPRINT_AVAILABLE, service, cache_hits, total_requests>>

\* lines 170-173: self.cache[cache_key] raises KeyError outside any try when
\* the key is gone; otherwise the stored object itself is marked and
\* returned, and whoever holds that object sees the mark
HitGet(t) ==
    /\ pc[t] = "hit_get"
    /\ IF HasKey(cache, KeyOf(t))
       THEN LET result == [Get(cache, KeyOf(t)) EXCEPT !.cache_hit = TRUE]
            IN  /\ cache' = Put(cache, KeyOf(t), result)
                /\ frame' = [u \in Threads |->
                                 IF u = t \/ Aliased(u, KeyOf(t))
                                 THEN [frame[u] EXCEPT !.result = Some(result)]
                                 ELSE frame[u]]
                /\ hist' = [hist EXCEPT ![t].tier = "cache", ![t].alias = TRUE]
                /\ Goto(t, "done")
       ELSE /\ cache' = cache
            /\ hist' = [hist EXCEPT ![t].raised = @ \cup {"cache_get"}]
            /\ Goto(t, "raised")
            /\ frame' = frame
    /\ UNCHANGED <<worker, SWITCHPRINT_AVAILABLE, service, cache_hits, total_requests>>

\* faulty variant: no except clause around the try body, the exception propagates
OuterHandlerPropagates == "raised"

\* where the except clause of lines 227-230 sends an exception of the try body
OuterHandler == "fallback"

\* faulty variant: an enrichment stage without its own try, its exception reaches
\* the outer except clause
EnrichmentHandlerAborts == "abort"

\* what the except clause of an enrichment stage (lines 191, 199, 206) does
\* with the stage's exception: it logs it and the next statement runs
EnrichmentHandler == "continue"

StageOrder == <<"context", "optimizer", "metrics">>

Present(stage) ==
    CASE stage = "context" -> context_detector
      [] stage = "optimizer" -> context_optimizer
      [] stage = "metrics" -> metrics_dashboard

\* lines 186-207: the enrichment stages in order; a stage is called when its
\* component is not None and raises when it is in fails
RECURSIVE RunStages(_, _, _)
RunStages(i, fails, acc) ==
    IF i > Len(StageOrder) \/ acc.aborted THEN acc
    ELSE LET stage == StageOrder[i]
         IN  IF ~Present(stage) THEN RunStages(i + 1, fails, acc)
             ELSE IF stage \in fails
                  THEN RunStages(i + 1, fails,
                           [called |-> acc.called \cup {stage},
                            raised |-> acc.raised \cup {stage},
                            aborted |-> EnrichmentHandler # "continue"])
                  ELSE RunStages(i + 1, fails,
                           [acc EXCEPT !.called = @ \cup {stage}])

\* lines 179-216 and 225: the primary detector, the enrichment stages and the
\* conversion; none of them touches the service's shared state.  stages is
\* the set of enrichment stages that may raise.
Detect(t, stages) ==
    /\ pc[t] = "primary"
    /\ \/ /\ frame' = frame
          /\ hist' = [hist EXCEPT ![t].tried = Append(@, "primary"),
                                  ![t].raised = @ \cup {"primary"}]
          /\ Goto(t, OuterHandler)
       \/ \E sp \in PrimaryOutputs,
             fails \in SUBSET {s \in stages : Present(s)} :
             LET r == RunStages(1, fails, [called |-> {}, raised |-> {}, aborted |-> FALSE])
                 optimization_result ==
                     IF "optimizer" \in r.called \ r.raised
                     THEN Some(OptimizationResult) ELSE None
                 result == _convert_v2_1_2_result(sp,
                               IF optimization_result = None THEN None
                               ELSE optimization_result[1],
                               frame[t].text, frame[t].user_languages,
                               frame[t].performance_mode, SWITCHPRINT_VERSION)
                 h == [hist[t] EXCEPT !.tried = Append(@, "primary"),
                                      !.called = r.called,
                                      !.raised = @ \cup r.raised]
                 f == [frame[t] EXCEPT !.sp_result = Some(sp),
                                       !.optimization_result = optimization_result]
             IN  IF r.aborted
                 THEN /\ frame' = [frame EXCEPT ![t] = f]
                      /\ hist' = [hist EXCEPT ![t] = h]
                      /\ Goto(t, OuterHandler)
                 ELSE IF frame[t].use_cache
                 THEN /\ frame' = [frame EXCEPT ![t] = [f EXCEPT !.result = Some(result)]]
                      /\ hist' = [hist EXCEPT ![t] = h]
                      /\ Goto(t, "store")
                 ELSE /\ frame' = [frame EXCEPT ![t] = [f EXCEPT !.result = Some(result)]]
                      /\ hist' = [hist EXCEPT ![t] = [h EXCEPT !.tier = "primary"]]
                      /\ Goto(t, "done")
    /\ UNCHANGED <<worker, SWITCHPRINT_AVAILABLE, service, cache, cache_hits, total_requests>>

\* line 217: the dict assignment stores the entry, or fails for lack of memory
Store(t) ==
    /\ pc[t] = "store"
    /\ \/ /\ cache' = Put(cache, KeyOf(t), frame[t].result[1])
          /\ hist' = [Unaliased(hist, KeyOf(t)) EXCEPT ![t].alias = TRUE]
          /\ Goto(t, "check")
       \/ /\ cache' = cache
          /\ hist' = [hist EXCEPT ![t].raised = @ \cup {"store"}]
          /\ Goto(t, OuterHandler)
    /\ UNCHANGED <<worker, SWITCHPRINT_AVAILABLE, service, cache_hits, total_requests, frame>>

\* faulty variant: the size test off by one
OverflowLate(c) == Len(c) > CacheCeiling + 1

\* line 219
Overflow(c) == Len(c) > CacheCeiling

\* lines 219-221: the size test and the list of the oldest keys
Check(t) ==
    /\ pc[t] = "check"
    /\ IF Overflow(cache) /\ FirstKeys(cache, EvictBatch) # <<>>
       THEN /\ frame' = [frame EXCEPT ![t].oldest_keys = FirstKeys(cache, EvictBatch)]
            /\ hist' = hist
            /\ Goto(t, "evict")
       ELSE ReturnWith(t, frame[t].result[1], "primary")
    /\ UNCHANGED <<worker, SWITCHPRINT_AVAILABLE, service, cache, cache_hits, total_requests>>

\* lines 222-225: one "del self.cache[key]"; KeyError when the key is gone;
\* after the last one the result is returned
Evict(t) ==
    /\ pc[t] = "evict"
    /\ LET key == Head(frame[t].oldest_keys)
           rest == Tail(frame[t].oldest_keys)
       IN  IF HasKey(cache, key)
           THEN /\ cache' = Del(cache, key)
                /\ IF rest = <<>>
                   THEN /\ frame' = [frame EXCEPT ![t].oldest_keys = rest]
                        /\ hist' = [Unaliased(hist, key) EXCEPT ![t].tier = "primary"]
                        /\ Goto(t, "done")
                   ELSE /\ frame' = [frame EXCEPT ![t].oldest_keys = rest]
                        /\ hist' = Unaliased(hist, key)
                        /\ Goto(t, "evict")
           ELSE /\ cache' = cache
                /\ frame' = frame
                /\ hist' = [hist EXCEPT ![t].raised = @ \cup {"evict"}]
                /\ Goto(t, OuterHandler)
    /\ UNCHANGED <<worker, SWITCHPRINT_AVAILABLE, service, cache_hits, total_requests>>

\* faulty variant: fast_mode ignored
SecondaryDetectorLegacyOnly(fast_mode) == "legacy"

\* line 362: the one detector that _fallback_analysis calls
SecondaryDetector(fast_mode) ==
    IF fast_mode /\ fasttext_detector THEN "fast" ELSE "legacy"

\* _fallback_analysis, lines 348-370.  The argument fast_mode of the call is
\* read here and nowhere before, so its value is drawn here.
Fallback(t) ==
    /\ pc[t] = "fallback"
    /\ \E fast_mode \in BOOLEAN :
        LET f == [frame[t] EXCEPT !.fast_mode = fast_mode]
            mock == _get_mock_result(f.text, f.user_languages)
            detector == SecondaryDetector(fast_mode)
        IN  IF ~legacy_detector
            THEN /\ frame' = [frame EXCEPT ![t] = [f EXCEPT !.result = Some(mock)]]
                 /\ hist' = [hist EXCEPT ![t].tier = "mock"]
                 /\ Goto(t, "done")
            ELSE \/ \E sp \in LegacyOutputs :
                      /\ frame' = [frame EXCEPT ![t] = [f EXCEPT !.result =
                            Some(_convert_legacy_result(sp, f.text, f.user_languages))]]
                      /\ hist' = [hist EXCEPT ![t].tried = Append(@, detector),
                                              ![t].tier = detector]
                      /\ Goto(t, "done")
                 \/ /\ frame' = [frame EXCEPT ![t] = [f EXCEPT !.result = Some(mock)]]
                    /\ hist' = [hist EXCEPT ![t].tried = Append(@, detector),
                                            ![t].raised = @ \cup {detector},
                                            ![t].tier = "mock"]
                    /\ Goto(t, "done")
    /\ UNCHANGED <<worker, SWITCHPRINT_AVAILABLE, service, cache, cache_hits, total_requests>>

\* the caller has taken the result (or the exception, or the rejection); the
\* thread is free
Return(t) ==
    /\ pc[t] \in {"done", "raised", "rejected"}
    /\ frame' = [frame EXCEPT ![t] = NoFrame]
    /\ hist' = [hist EXCEPT ![t] = NoHist]
    /\ Goto(t, "idle")
    /\ UNCHANGED <<worker, SWITCHPRINT_AVAILABLE, service, cache, cache_hits, total_requests>>

\* faulty variant: the counters are reset with the cache
ClearCacheAndCounters ==
    /\ cache # <<>>
    /\ cache' = <<>>
    /\ cache_hits' = 0
    /\ total_requests' = 0
    /\ hist' = [u \in Threads |-> [hist[u] EXCEPT !.alias = FALSE]]
    /\ UNCHANGED <<worker, SWITCHPRINT_AVAILABLE, service, pc, frame>>

\* clear_cache, lines 536-539
ClearCache ==
    /\ cache # <<>>
    /\ cache' = <<>>
    /\ hist' = [u \in Threads |-> [hist[u] EXCEPT !.alias = FALSE]]
    /\ UNCHANGED <<worker, SWITCHPRINT_AVAILABLE, service, cache_hits, total_requests, pc, frame>>

\* the steps of a call that do not depend on the inputs of the model
Body(t) ==
    \/ Count(t) \/ Lookup(t) \/ HitCount(t) \/ HitGet(t)
    \/ Store(t) \/ Check(t) \/ Evict(t) \/ Fallback(t) \/ Return(t)

Step(t) ==
    \/ Call(t, Requests, BOOLEAN)
    \/ Detect(t, Range(StageOrder))
    \/ Body(t)

Quiet(T) == \A u \in T : pc[u] = "idle"

\* requests handled one at a time, by one thread
Worker == CHOOSE t \in Threads : TRUE

Next ==
    \/ Step(Worker)
    \/ Quiet(Threads) /\ ClearCache

Spec == Init /\ [][Next]_vars

\* A service whose constructors all succeeded, or all but the last one (no
\* primary and no fast detector: the except clause of __init__), with an
\* empty cache.
CacheInit ==
    \E built \in {6, 7} :
        /\ SWITCHPRINT_AVAILABLE = TRUE
        /\ integrated_detector = (built = 7)
        /\ context_detector = TRUE
        /\ batch_processor = TRUE
        /\ metrics_dashboard = TRUE
        /\ context_optimizer = TRUE
        /\ legacy_detector = TRUE
        /\ fasttext_detector = (built = 7)
        /\ cache = <<>>
        /\ cache_hits = 0
        /\ total_requests = 0
        /\ pc = [t \in Threads |-> "idle"]
        /\ frame = [t \in Threads |-> NoFrame]
        /\ hist = [t \in Threads |-> NoHist]
        /\ WorkerAbsent

\* calls with and without use_cache; the enrichment stages do not raise
CacheStep(t) ==
    \/ Call(t, Requests, BOOLEAN)
    \/ Detect(t, {})
    \/ Body(t)

\* requests handled one at a time, and clear_cache between them
CacheNext ==
    \/ CacheStep(Worker)
    \/ Quiet(Threads) /\ ClearCache

CacheSpec == CacheInit /\ [][CacheNext]_vars

\* The entry that a request leaves in the cache when every component is
\* present and none raises.
WarmEntry(r) ==
    [key |-> CacheKey(r.text, r.user_languages, r.performance_mode),
     value |-> _convert_v2_1_2_result(CHOOSE sp \in PrimaryOutputs : TRUE,
                   OptimizationResult, r.text, r.user_languages,
                   r.performance_mode, V2_1_2)]

Min(a, b) == IF a < b THEN a ELSE b

\* The cache after the first requests of RequestSeq were served, one at a
\* time with use_cache, up to the ceiling.
WarmCache ==
    [i \in 1..Min(CacheCeiling, Len(RequestSeq)) |-> WarmEntry(RequestSeq[i])]

\* A service on which every constructor succeeded and that has served
\* those requests, a state that Spec reaches.
ConcInit ==
    /\ SWITCHPRINT_AVAILABLE = TRUE
    /\ integrated_detector = TRUE
    /\ context_detector = TRUE
    /\ batch_processor = TRUE
    /\ metrics_dashboard = TRUE
    /\ context_optimizer = TRUE
    /\ legacy_detector = TRUE
    /\ fasttext_detector = TRUE
    /\ cache = WarmCache
    /\ cache_hits = 0
    /\ total_requests = Len(WarmCache)
    /\ pc = [t \in Threads |-> "idle"]
    /\ frame = [t \in Threads |-> NoFrame]
    /\ hist = [t \in Threads |-> NoHist]
    /\ WorkerAbsent

\* The requests of the concurrent threads: for the oldest cached key and for
\* a key that is not cached, both with use_cache; the enrichment stages do
\* not raise.
ConcRequests == {RequestSeq[1], RequestSeq[Len(RequestSeq)]}

ConcStep(t) ==
    \/ Call(t, ConcRequests, {TRUE})
    \/ Detect(t, {})
    \/ Body(t)

\* requests handled by concurrent threads of the one service instance
ConcNext == \E t \in Threads : ConcStep(t)

ConcSpec == ConcInit /\ [][ConcNext]_vars

\* one call of analyze_text by each thread, which then holds its result
CountStep(t) ==
    \/ Call(t, ConcRequests, {TRUE})
    \/ Detect(t, {})
    \/ Count(t) \/ Lookup(t) \/ HitCount(t) \/ HitGet(t)
    \/ Store(t) \/ Check(t) \/ Evict(t) \/ Fallback(t)

CountNext == \E t \in Threads : CountStep(t)

CountSpec == ConcInit /\ [][CountNext]_vars

\* requests whose text or language names hold the separators of the key
KeyRequests ==
    {Request(<<"a">>, <<<<"b", ":", "c">>>>, balanced),
     Request(<<"a", ":", "b">>, <<<<"c">>>>, balanced),
     Request(<<"a">>, <<<<"b">>, <<"c">>>>, balanced),
     Request(<<"a">>, <<<<"b", ",", "c">>>>, balanced)}

KeyStep(t) ==
    \/ Call(t, KeyRequests, {TRUE})
    \/ Detect(t, {})
    \/ Body(t)

\* such requests, one at a time, to a service with a warm cache
KeyNext == KeyStep(Worker)

KeySpec == ConcInit /\ [][KeyNext]_vars

(***************************************************************************)
(* The /analyze endpoint in front of analyze_text, and requests at the     *)
(* edges of the input space.                                               *)
(***************************************************************************)
accurate == <<"a","c","c","u","r","a","t","e">>

\* lines 587-588
ValidMode(performance_mode) ==
    IF performance_mode \in {fast, balanced, accurate}
    THEN performance_mode ELSE balanced

\* the endpoint, lines 572-597: a text that is empty after strip() is
\* answered with status 400 and the service is not called; otherwise
\* service.analyze_text is entered with the validated mode
Post(t, requests, flags) ==
    /\ pc[t] = "idle"
    /\ total_requests < MaxCalls
    /\ \E r \in requests, use_cache \in flags :
          /\ frame' = [frame EXCEPT ![t] =
                          [NoFrame EXCEPT !.text = r.text,
                                          !.user_languages = r.user_languages,
                                          !.performance_mode = ValidMode(r.performance_mode),
                                          !.use_cache = use_cache,
                                          !.tmp = total_requests]]
          /\ Goto(t, IF IsBlank(r.text) THEN "rejected" ELSE "count")
    /\ hist' = [hist EXCEPT ![t] = [NoHist EXCEPT !.cache0 = cache]]
    /\ UNCHANGED <<worker, SWITCHPRINT_AVAILABLE, service, cache, cache_hits, total_requests>>

\* a blank text, one text with its user languages in both orders, and a
\* request whose result the warm cache holds
EdgeRequests ==
    {Request(<<" ">>, <<>>, balanced),
     Request(<<"a", " ", "b">>, <<english, spanish>>, balanced),
     Request(<<"a", " ", "b">>, <<spanish, english>>, balanced),
     RequestSeq[Len(WarmCache)]}

\* requests through the endpoint and direct calls of analyze_text, both
\* with use_cache, one at a time
EdgeStep(t) ==
    \/ Post(t, EdgeRequests, {TRUE})
    \/ Call(t, EdgeRequests, {TRUE})
    \/ Detect(t, {})
    \/ Body(t)

EdgeNext == EdgeStep(Worker)

EdgeSpec == ConcInit /\ [][EdgeNext]_vars

(***************************************************************************)
(* The result normalizer on its own: the conversions applied to arbitrary  *)
(* raw detector outputs.                                                   *)
(***************************************************************************)
NormTexts ==
    {<<" ">>, <<"a">>, <<"a", " ", "b">>, <<"a", " ", "b", " ", "c">>}

NormUserLanguages == {<<>>, <<spanish>>, <<english, spanish>>}

\* detected_languages of a raw output
NormDetected ==
    {<<>>, <<english>>, <<english, Spanish>>, <<english, spanish, english>>}

\* switch_points of a raw output: in any order, repeated, out of range
NormSwitchPoints ==
    {<<>>} \cup {<<i>> : i \in {0, 1, 2, 5}} \cup {<<i, j>> : i, j \in {0, 1, 2, 5}}

\* the raw output as the primary detector's result object
PrimaryRaw(raw) ==
    [original_confidence |-> 70, calibrated_confidence |-> 80,
     reliability_score |-> 90, quality_assessment |-> "high",
     calibration_method |-> "isotonic",
     detected_languages |-> raw.detected_languages,
     switch_points |-> raw.switch_points]

\* the raw output as a legacy detector's result object; its switch points
\* are (index, language) tuples or plain indices
LegacyRaw(raw, tuple) ==
    [confidence |-> 60,
     detected_languages |-> raw.detected_languages,
     switch_points |-> [i \in 1..Len(raw.switch_points) |->
                           [tuple |-> tuple, index |-> raw.switch_points[i]]]]

NormInit ==
    /\ SWITCHPRINT_AVAILABLE = TRUE
    /\ integrated_detector = TRUE
    /\ context_detector = TRUE
    /\ batch_processor = TRUE
    /\ metrics_dashboard = TRUE
    /\ context_optimizer = TRUE
    /\ legacy_detector = TRUE
    /\ fasttext_detector = TRUE
    /\ cache = <<>>
    /\ cache_hits = 0
    /\ total_requests = 0
    /\ pc = [t \in Threads |-> IF t = Worker THEN "convert" ELSE "idle"]
    /\ \E text \in NormTexts, user_languages \in NormUserLanguages,
          detected \in NormDetected, sps \in NormSwitchPoints :
          frame = [t \in Threads |->
                      IF t = Worker
                      THEN [NoFrame EXCEPT
                               !.text = text,
                               !.user_languages = user_languages,
                               !.performance_mode = balanced,
                               !.sp_result = Some([detected_languages |-> detected,
                                                   switch_points |-> sps])]
                      ELSE NoFrame]
    /\ hist = [t \in Threads |-> NoHist]
    /\ WorkerAbsent

\* lines 210-213
ConvertPrimary(t) ==
    /\ pc[t] = "convert"
    /\ \E optimization_result \in {None, OptimizationResult} :
          ReturnWith(t, _convert_v2_1_2_result(PrimaryRaw(frame[t].sp_result[1]),
                            optimization_result, frame[t].text,
                            frame[t].user_languages, frame[t].performance_mode,
                            SWITCHPRINT_VERSION),
                     "primary")
    /\ UNCHANGED <<worker, SWITCHPRINT_AVAILABLE, service, cache, cache_hits, total_requests>>

\* line 366
ConvertLegacy(t) ==
    /\ pc[t] = "convert"
    /\ \E tuple \in BOOLEAN :
          ReturnWith(t, _convert_legacy_result(LegacyRaw(frame[t].sp_result[1], tuple),
                            frame[t].text, frame[t].user_languages),
                     "legacy")
    /\ UNCHANGED <<worker, SWITCHPRINT_AVAILABLE, service, cache, cache_hits, total_requests>>

\* lines 358 and 370
ConvertMock(t) ==
    /\ pc[t] = "convert"
    /\ ReturnWith(t, _get_mock_result(frame[t].text, frame[t].user_languages), "mock")
    /\ UNCHANGED <<worker, SWITCHPRINT_AVAILABLE, service, cache, cache_hits, total_requests>>

NormNext ==
    \/ ConvertPrimary(Worker)
    \/ ConvertLegacy(Worker)
    \/ ConvertMock(Worker)

NormSpec == NormInit /\ [][NormNext]_vars

(***************************************************************************)
(* The FastText worker (backend/python_workers/fasttext_worker.py): a      *)
(* process that answers request lines on its standard input.               *)
(***************************************************************************)
\* the input of a run holds at most MaxLines lines
MaxLines == 3

RECURSIVE LStrip(_)
LStrip(s) == IF s # <<>> /\ IsSpace(Head(s)) THEN LStrip(Tail(s)) ELSE s

RECURSIVE RStrip(_)
RStrip(s) ==
    IF s # <<>> /\ IsSpace(s[Len(s)]) THEN RStrip(SubSeq(s, 1, Len(s) - 1)) ELSE s

\* str.strip()
Strip(s) == RStrip(LStrip(s))

\* text.replace('\n', ' ').replace('\r', ' ')
Unbreak(s) == [i \in 1..Len(s) |-> IF s[i] \in {"\n", "\r"} THEN " " ELSE s[i]]

\* str.upper()
UpperStr(s) ==
    [i \in 1..Len(s) |->
        IF \E k \in 1..26 : LowerCase[k] = s[i]
        THEN Upper[CHOOSE k \in 1..26 : LowerCase[k] = s[i]]
        ELSE s[i]]

\* JSON values: strings, numbers, objects with the fields a request may have
Str(chars) == [type |-> "str", chars |-> chars]
Number(n) == [type |-> "int", value |-> n]
Object(text, languages) == [type |-> "object", text |-> text, languages |-> languages]

\* Python truth value of a JSON value: "not text" holds for '' and for 0
Falsy(v) ==
    \/ v.type = "str" /\ v.chars = <<>>
    \/ v.type = "int" /\ v.value = 0

\* a line of white space
LineBlank ==
    <<" ", "\n">>
\* not JSON
LineBroken ==
    <<"{", "\n">>
\* JSON, not an object
LineNumber ==
    <<"5", "\n">>
\* an object without text
LineNoText ==
    <<"{", "}", "\n">>
\* a text of white space
LineBlankText ==
    <<"{", "\"", "t", "e", "x", "t", "\"", ":", "\"", " ", "\"", "}", "\n">>
\* a text that is not a string
LineNumberText ==
    <<"{", "\"", "t", "e", "x", "t", "\"", ":", "5", "}", "\n">>
\* a request
LineText ==
    <<"{", "\"", "t", "e", "x", "t", "\"", ":", "\"", "a", " ", "b", "\"", "}", "\n">>
\* a request with languages
LineTextLanguages ==
    <<"{", "\"", "t", "e", "x", "t", "\"", ":", "\"", "a", " ", "b", "\"", ",", "\"", "l", "a", "n", "g", "u", "a", "g", "e", "s", "\"", ":", "[", "\"", "s", "p", "a", "n", "i", "s", "h", "\"", "]", "}", "\n">>
\* a request with a text of three words
LineThreeWords ==
    <<"{", "\"", "t", "e", "x", "t", "\"", ":", "\"", "a", " ", "b", " ", "a", "\"", "}", "\n">>

WorkerLines ==
    {LineBlank, LineBroken, LineNumber, LineNoText, LineBlankText,
     LineNumberText, LineText, LineTextLanguages, LineThreeWords}

\* json.loads on the stripped line, for the lines of WorkerLines: the
\* document, or None where json.loads raises JSONDecodeError
JsonLoads(s) ==
    CASE s = Strip(LineNumber) -> Some(Number(5))
      [] s = Strip(LineNoText) -> Some(Object(None, None))
      [] s = Strip(LineBlankText) -> Some(Object(Some(Str(<<" ">>)), None))
      [] s = Strip(LineNumberText) -> Some(Object(Some(Number(5)), None))
      [] s = Strip(LineText) -> Some(Object(Some(Str(<<"a", " ", "b">>)), None))
      [] s = Strip(LineTextLanguages) ->
             Some(Object(Some(Str(<<"a", " ", "b">>)), Some(<<spanish>>)))
      [] s = Strip(LineThreeWords) ->
             Some(Object(Some(Str(<<"a", " ", "b", " ", "a">>)), None))
      [] OTHER -> None

en == <<"e","n">>
es == <<"e","s">>
fr == <<"f","r">>
de == <<"d","e">>

\* self.languages_map, lines 32-75
languages_map ==
    <<[name |-> <<"e","n","g","l","i","s","h">>, code |-> <<"e","n">>],
      [name |-> <<"s","p","a","n","i","s","h">>, code |-> <<"e","s">>],
      [name |-> <<"h","i","n","d","i">>, code |-> <<"h","i">>],
      [name |-> <<"m","a","n","d","a","r","i","n">>, code |-> <<"z","h">>],
      [name |-> <<"c","h","i","n","e","s","e">>, code |-> <<"z","h">>],
      [name |-> <<"f","r","e","n","c","h">>, code |-> <<"f","r">>],
      [name |-> <<"a","r","a","b","i","c">>, code |-> <<"a","r">>],
      [name |-> <<"p","o","r","t","u","g","u","e","s","e">>, code |-> <<"p","t">>],
      [name |-> <<"r","u","s","s","i","a","n">>, code |-> <<"r","u">>],
      [name |-> <<"j","a","p","a","n","e","s","e">>, code |-> <<"j","a">>],
      [name |-> <<"g","e","r","m","a","n">>, code |-> <<"d","e">>],
      [name |-> <<"k","o","r","e","a","n">>, code |-> <<"k","o">>],
      [name |-> <<"i","t","a","l","i","a","n">>, code |-> <<"i","t">>],
      [name |-> <<"d","u","t","c","h">>, code |-> <<"n","l">>],
      [name |-> <<"s","w","e","d","i","s","h">>, code |-> <<"s","v">>],
      [name |-> <<"n","o","r","w","e","g","i","a","n">>, code |-> <<"n","o">>],
      [name |-> <<"t","a","g","a","l","o","g">>, code |-> <<"t","l">>],
      [name |-> <<"u","r","d","u">>, code |-> <<"u","r">>],
      [name |-> <<"b","e","n","g","a","l","i">>, code |-> <<"b","n">>],
      [name |-> <<"v","i","e","t","n","a","m","e","s","e">>, code |-> <<"v","i">>],
      [name |-> <<"t","u","r","k","i","s","h">>, code |-> <<"t","r">>],
      [name |-> <<"p","o","l","i","s","h">>, code |-> <<"p","l">>],
      [name |-> <<"u","k","r","a","i","n","i","a","n">>, code |-> <<"u","k">>],
      [name |-> <<"c","z","e","c","h">>, code |-> <<"c","s">>],
      [name |-> <<"g","r","e","e","k">>, code |-> <<"e","l">>],
      [name |-> <<"h","e","b","r","e","w">>, code |-> <<"h","e">>],
      [name |-> <<"t","h","a","i">>, code |-> <<"t","h">>],
      [name |-> <<"r","o","m","a","n","i","a","n">>, code |-> <<"r","o">>],
      [name |-> <<"h","u","n","g","a","r","i","a","n">>, code |-> <<"h","u">>],
      [name |-> <<"f","i","n","n","i","s","h">>, code |-> <<"f","i">>],
      [name |-> <<"b","u","l","g","a","r","i","a","n">>, code |-> <<"b","g">>],
      [name |-> <<"c","r","o","a","t","i","a","n">>, code |-> <<"h","r">>],
      [name |-> <<"s","l","o","v","a","k">>, code |-> <<"s","k">>],
      [name |-> <<"l","i","t","h","u","a","n","i","a","n">>, code |-> <<"l","t">>],
      [name |-> <<"l","a","t","v","i","a","n">>, code |-> <<"l","v">>],
      [name |-> <<"e","s","t","o","n","i","a","n">>, code |-> <<"e","t">>],
      [name |-> <<"s","l","o","v","e","n","i","a","n">>, code |-> <<"s","l">>],
      [name |-> <<"m","a","c","e","d","o","n","i","a","n">>, code |-> <<"m","k">>],
      [name |-> <<"a","l","b","a","n","i","a","n">>, code |-> <<"s","q">>],
      [name |-> <<"s","e","r","b","i","a","n">>, code |-> <<"s","r">>],
      [name |-> <<"b","o","s","n","i","a","n">>, code |-> <<"b","s">>],
      [name |-> <<"m","o","n","t","e","n","e","g","r","i","n">>, code |-> <<"c","n","r">>],
      [name |-> <<"m","a","l","t","e","s","e">>, code |-> <<"m","t">>]>>

\* lines 118-121
_normalize_language(lang) ==
    LET lang_lower == Strip(Lower(lang))
    IN  IF \E i \in 1..Len(languages_map) : languages_map[i].name = lang_lower
        THEN languages_map[CHOOSE i \in 1..Len(languages_map) :
                              languages_map[i].name = lang_lower].code
        ELSE SubSeq(lang_lower, 1, IF Len(lang_lower) < 2 THEN Len(lang_lower) ELSE 2)

\* code_to_name_map, lines 241-283
code_to_name_map ==
    <<[code |-> <<"e","n">>, name |-> <<"E","n","g","l","i","s","h">>],
      [code |-> <<"e","s">>, name |-> <<"S","p","a","n","i","s","h">>],
      [code |-> <<"h","i">>, name |-> <<"H","i","n","d","i">>],
      [code |-> <<"z","h">>, name |-> <<"C","h","i","n","e","s","e">>],
      [code |-> <<"f","r">>, name |-> <<"F","r","e","n","c","h">>],
      [code |-> <<"a","r">>, name |-> <<"A","r","a","b","i","c">>],
      [code |-> <<"p","t">>, name |-> <<"P","o","r","t","u","g","u","e","s","e">>],
      [code |-> <<"r","u">>, name |-> <<"R","u","s","s","i","a","n">>],
      [code |-> <<"j","a">>, name |-> <<"J","a","p","a","n","e","s","e">>],
      [code |-> <<"d","e">>, name |-> <<"G","e","r","m","a","n">>],
      [code |-> <<"k","o">>, name |-> <<"K","o","r","e","a","n">>],
      [code |-> <<"i","t">>, name |-> <<"I","t","a","l","i","a","n">>],
      [code |-> <<"n","l">>, name |-> <<"D","u","t","c","h">>],
      [code |-> <<"s","v">>, name |-> <<"S","w","e","d","i","s","h">>],
      [code |-> <<"n","o">>, name |-> <<"N","o","r","w","e","g","i","a","n">>],
      [code |-> <<"t","l">>, name |-> <<"T","a","g","a","l","o","g">>],
      [code |-> <<"u","r">>, name |-> <<"U","r","d","u">>],
      [code |-> <<"b","n">>, name |-> <<"B","e","n","g","a","l","i">>],
      [code |-> <<"v","i">>, name |-> <<"V","i","e","t","n","a","m","e","s","e">>],
      [code |-> <<"t","r">>, name |-> <<"T","u","r","k","i","s","h">>],
      [code |-> <<"p","l">>, name |-> <<"P","o","l","i","s","h">>],
      [code |-> <<"u","k">>, name |-> <<"U","k","r","a","i","n","i","a","n">>],
      [code |-> <<"c","s">>, name |-> <<"C","z","e","c","h">>],
      [code |-> <<"e","l">>, name |-> <<"G","r","e","e","k">>],
      [code |-> <<"h","e">>, name |-> <<"H","e","b","r","e","w">>],
      [code |-> <<"t","h">>, name |-> <<"T","h","a","i">>],
      [code |-> <<"r","o">>, name |-> <<"R","o","m","a","n","i","a","n">>],
      [code |-> <<"h","u">>, name |-> <<"H","u","n","g","a","r","i","a","n">>],
      [code |-> <<"f","i">>, name |-> <<"F","i","n","n","i","s","h">>],
      [code |-> <<"b","g">>, name |-> <<"B","u","l","g","a","r","i","a","n">>],
      [code |-> <<"h","r">>, name |-> <<"C","r","o","a","t","i","a","n">>],
      [code |-> <<"s","k">>, name |-> <<"S","l","o","v","a","k">>],
      [code |-> <<"l","t">>, name |-> <<"L","i","t","h","u","a","n","i","a","n">>],
      [code |-> <<"l","v">>, name |-> <<"L","a","t","v","i","a","n">>],
      [code |-> <<"e","t">>, name |-> <<"E","s","t","o","n","i","a","n">>],
      [code |-> <<"s","l">>, name |-> <<"S","l","o","v","e","n","i","a","n">>],
      [code |-> <<"m","k">>, name |-> <<"M","a","c","e","d","o","n","i","a","n">>],
      [code |-> <<"s","q">>, name |-> <<"A","l","b","a","n","i","a","n">>],
      [code |-> <<"s","r">>, name |-> <<"S","e","r","b","i","a","n">>],
      [code |-> <<"b","s">>, name |-> <<"B","o","s","n","i","a","n">>],
      [code |-> <<"m","t">>, name |-> <<"M","a","l","t","e","s","e">>]>>

\* lines 239-284
_code_to_name(code) ==
    IF \E i \in 1..Len(code_to_name_map) : code_to_name_map[i].code = code
    THEN code_to_name_map[CHOOSE i \in 1..Len(code_to_name_map) :
                             code_to_name_map[i].code = code].name
    ELSE UpperStr(code)

\* A loaded model: the ranked labels it predicts for a whole text (at most
\* the k = 5 asked for) and the label it predicts for a word.
WorkerModels ==
    {[labels |-> <<[language |-> en, confidence |-> 90],
                   [language |-> es, confidence |-> 10]>>,
      english_words |-> {<<"a">>}],
     [labels |-> <<[language |-> es, confidence |-> 50],
                   [language |-> en, confidence |-> 30],
                   [language |-> fr, confidence |-> 10],
                   [language |-> de, confidence |-> 5]>>,
      english_words |-> {}]}

\* self.model.predict(word, k=1), lines 165-167
WordPredict(m, word) ==
    IF word \in m.english_words
    THEN [lang |-> en, confidence |-> 90]
    ELSE [lang |-> es, confidence |-> 80]

\* lines 223-237
_create_phrase(tokens) ==
    LET words == [i \in 1..Len(tokens) |-> tokens[i].word]
        RECURSIVE Sum(_)
        Sum(i) == IF i = 0 THEN 0 ELSE tokens[i].confidence + Sum(i - 1)
    IN  [words |-> words,
         text |-> Join(words, <<" ">>),
         language |-> tokens[1].language,
         confidence |-> Sum(Len(tokens)) \div Len(tokens),
         startIndex |-> 0,
         endIndex |-> Len(words),
         isUserLanguage |-> FALSE]

\* faulty variant: every token is a phrase of its own
WorkerGroupSingles(tokens, i, current_phrase, phrases) ==
    [k \in 1..Len(tokens) |-> _create_phrase(<<tokens[k]>>)]

\* lines 176-189: consecutive tokens of one 'lang' make a phrase
RECURSIVE WorkerGroup(_, _, _, _)
WorkerGroup(tokens, i, current_phrase, phrases) ==
    IF i > Len(tokens)
    THEN IF current_phrase = <<>> THEN phrases
         ELSE Append(phrases, _create_phrase(current_phrase))
    ELSE IF current_phrase = <<>>
              \/ tokens[i].lang = current_phrase[Len(current_phrase)].lang
         THEN WorkerGroup(tokens, i + 1, Append(current_phrase, tokens[i]), phrases)
         ELSE WorkerGroup(tokens, i + 1, <<tokens[i]>>,
                          Append(phrases, _create_phrase(current_phrase)))

\* lines 191-195
RECURSIVE WorkerSwitchPoints(_, _)
WorkerSwitchPoints(phrases, i) ==
    IF i >= Len(phrases) THEN <<>>
    ELSE (IF phrases[i].language # phrases[i + 1].language
          THEN <<phrases[i].endIndex>> ELSE <<>>)
         \o WorkerSwitchPoints(phrases, i + 1)

\* lines 123-221.  m is self.model (None or a loaded model), text the JSON
\* value of the request's 'text', user_languages a list of names; raises
\* tells whether model.predict raises.  Confidences are in hundredths, and
\* timeMs is "0" until the caller writes the measured time.
detect_language(m, text, user_languages, raises) ==
    IF m = None THEN [error |-> "FastText model not initialized"]
    ELSE IF text.type # "str" THEN [error |-> "Detection failed"]
    ELSE LET cleaned_text == Strip(Unbreak(text.chars))
         IN  IF cleaned_text = <<>> THEN [error |-> "Empty text provided"]
             ELSE IF raises THEN [error |-> "Detection failed"]
             ELSE
    LET detected_languages ==
            [i \in 1..Len(m[1].labels) |->
                [language |-> m[1].labels[i].language,
                 confidence |-> m[1].labels[i].confidence,
                 name |-> _code_to_name(m[1].labels[i].language)]]
        words == Split(cleaned_text)
        tokens ==
            [i \in 1..Len(words) |->
                [word |-> words[i],
                 lang |-> WordPredict(m[1], words[i]).lang,
                 language |-> _code_to_name(WordPredict(m[1], words[i]).lang),
                 confidence |-> WordPredict(m[1], words[i]).confidence]]
        phrases == WorkerGroup(tokens, 1, <<>>, <<>>)
        user_lang_match ==
            /\ user_languages # <<>>
            /\ detected_languages # <<>>
            /\ \E i \in 1..Len(user_languages) :
                   _normalize_language(user_languages[i]) = detected_languages[1].language
    IN  [tokens |-> tokens,
         phrases |-> phrases,
         switchPoints |-> WorkerSwitchPoints(phrases, 1),
         confidence |-> IF detected_languages # <<>>
                        THEN detected_languages[1].confidence ELSE 0,
         userLanguageMatch |-> user_lang_match,
         detectedLanguages |->
             [i \in 1..(IF Len(detected_languages) < 3 THEN Len(detected_languages) ELSE 3)
                 |-> detected_languages[i].name],
         processing |-> [timeMs |-> "0", engine |-> "FastText",
                         tokensPerSecond |-> Len(tokens) * 1000]]

\* the request reaches model.predict: only then can the model raise
Predicts(line) ==
    LET request == JsonLoads(Strip(line))
    IN  /\ request # None
        /\ request[1].type = "object"
        /\ request[1].text # None
        /\ request[1].text[1].type = "str"
        /\ Strip(Unbreak(request[1].text[1].chars)) # <<>>

\* faulty variant: a malformed line ends the loop
InvalidJsonHandlerExits == "exit"

\* lines 327-329: the handler of json.JSONDecodeError answers and goes on
InvalidJsonHandler == "respond"

\* faulty variant: no line is skipped
SkippedNever(line) == FALSE

\* lines 302-304: a line that strips to nothing is skipped
Skipped(line) == Strip(line) = <<>>

\* lines 306-333, the body of the loop for a line that is not skipped: the
\* response that is printed
Respond(m, line, raises) ==
    LET request == JsonLoads(Strip(line))
    IN  IF request = None THEN [error |-> "Invalid JSON"]
        ELSE IF request[1].type # "object" THEN [error |-> "Processing failed"]
        ELSE LET text == IF request[1].text = None THEN Str(<<>>)
                         ELSE request[1].text[1]
                 languages == IF request[1].languages = None THEN <<>>
                              ELSE request[1].languages[1]
             IN  IF Falsy(text) THEN [error |-> "No text provided"]
                 ELSE LET result == detect_language(m, text, languages, raises)
                      IN  IF "processing" \in DOMAIN result
                          THEN [result EXCEPT !.processing.timeMs = "measured"]
                          ELSE result

\* the service of switchprint_service.py is not part of the worker process
ServiceAbsent ==
    /\ SWITCHPRINT_AVAILABLE = FALSE
    /\ integrated_detector = FALSE
    /\ context_detector = FALSE
    /\ batch_processor = FALSE
    /\ metrics_dashboard = FALSE
    /\ context_optimizer = FALSE
    /\ legacy_detector = FALSE
    /\ fasttext_detector = FALSE
    /\ cache = <<>>
    /\ cache_hits = 0
    /\ total_requests = 0
    /\ pc = [t \in Threads |-> "idle"]
    /\ frame = [t \in Threads |-> NoFrame]
    /\ hist = [t \in Threads |-> NoHist]

SeqsUpTo(S, n) == UNION {[1..k -> S] : k \in 0..n}

\* main() is entered with its input on stdin
WorkerInit ==
    /\ ServiceAbsent
    /\ model = None
    /\ stdin \in SeqsUpTo(WorkerLines, MaxLines)
    /\ stdout = <<>>
    /\ wpc = "start"
    /\ consumed = <<>>
    /\ mapped = <<>>

WorkerUnchanged == UNCHANGED <<SWITCHPRINT_AVAILABLE, service, cache, cache_hits, total_requests, pc, frame, hist, mapped>>

\* faulty variant: a failed start does not end the process
InitializeWithoutExit ==
    /\ wpc = "start"
    /\ \/ \E m \in WorkerModels :
            /\ model' = Some(m)
            /\ stdout' = Append(stdout, [status |-> "ready", engine |-> "FastText"])
       \/ /\ model' = model
          /\ stdout' = Append(stdout, [error |-> "Failed to initialize FastText model"])
    /\ wpc' = "loop"
    /\ UNCHANGED <<stdin, consumed>>
    /\ WorkerUnchanged

\* lines 288-297 and 106-116: the model loads and the ready line is
\* printed, or it does not and the process exits with status 1
Initialize ==
    /\ wpc = "start"
    /\ \/ \E m \in WorkerModels :
            /\ model' = Some(m)
            /\ stdout' = Append(stdout, [status |-> "ready", engine |-> "FastText"])
            /\ wpc' = "loop"
       \/ /\ model' = model
          /\ stdout' = Append(stdout, [error |-> "Failed to initialize FastText model"])
          /\ wpc' = "exit1"
    /\ UNCHANGED <<stdin, consumed>>
    /\ WorkerUnchanged

\* faulty variant: the next line is read while a request is being served
ReadLineEager ==
    /\ wpc \in {"loop", "serving"}
    /\ stdin # <<>>
    /\ \E raises \in (IF Predicts(Head(stdin)) THEN BOOLEAN ELSE {FALSE}) :
           consumed' = Append(consumed, [line |-> Head(stdin), raises |-> raises])
    /\ stdin' = Tail(stdin)
    /\ wpc' = "serving"
    /\ UNCHANGED <<model, stdout>>
    /\ WorkerUnchanged

\* line 301: the loop takes the next line of stdin
ReadLine ==
    /\ wpc = "loop"
    /\ stdin # <<>>
    /\ \E raises \in (IF Predicts(Head(stdin)) THEN BOOLEAN ELSE {FALSE}) :
           consumed' = Append(consumed, [line |-> Head(stdin), raises |-> raises])
    /\ stdin' = Tail(stdin)
    /\ wpc' = "serving"
    /\ UNCHANGED <<model, stdout>>
    /\ WorkerUnchanged

\* lines 302-333: the body of the loop for the line just read
Serve ==
    /\ wpc = "serving"
    /\ LET request == consumed[Len(consumed)]
       IN  IF Skipped(request.line)
           THEN /\ stdout' = stdout
                /\ wpc' = "loop"
           ELSE /\ stdout' = Append(stdout, Respond(model, request.line, request.raises))
                /\ wpc' = IF JsonLoads(Strip(request.line)) = None
                             /\ InvalidJsonHandler = "exit"
                          THEN "exit0" ELSE "loop"
    /\ UNCHANGED <<model, stdin, consumed>>
    /\ WorkerUnchanged

\* line 301: stdin is at its end, the loop and main() finish
EndOfInput ==
    /\ wpc = "loop"
    /\ stdin = <<>>
    /\ wpc' = "exit0"
    /\ UNCHANGED <<model, stdin, stdout, consumed>>
    /\ WorkerUnchanged

WorkerNext == Initialize \/ ReadLine \/ Serve \/ EndOfInput

WorkerSpec == WorkerInit /\ [][WorkerNext]_vars

\* the language mapper is applied at most MaxChain times in a row
MaxChain == 3

ListedNames == {languages_map[i].name : i \in 1..Len(languages_map)}
ListedCodes == {code_to_name_map[i].code : i \in 1..Len(code_to_name_map)}

\* what the mapper is given: the names and codes of its tables, and names
\* as a user may write them
MapperInputs ==
    ListedNames \cup ListedCodes
        \cup {Spanish, <<" ">> \o english \o <<"\n">>, <<"k","l","i","n","g","o","n">>, <<"x">>, <<>>}

\* the mapper of a FastTextWorker (lines 28, 118-121 and 239-284) on its own
MapperInit ==
    /\ ServiceAbsent
    /\ model = None
    /\ stdin = <<>>
    /\ stdout = <<>>
    /\ wpc = "mapper"
    /\ consumed = <<>>
    /\ \E lang \in MapperInputs : mapped = <<[op |-> "input", value |-> lang]>>

MapperUnchanged == UNCHANGED <<SWITCHPRINT_AVAILABLE, service, cache, cache_hits, total_requests, pc, frame, hist, model, stdin, stdout, wpc, consumed>>

\* self._normalize_language applied to the last value
Normalize ==
    /\ wpc = "mapper"
    /\ Len(mapped) <= MaxChain
    /\ mapped' = Append(mapped, [op |-> "normalize",
                                 value |-> _normalize_language(mapped[Len(mapped)].value)])
    /\ MapperUnchanged

\* self._code_to_name applied to the last value
CodeToName ==
    /\ wpc = "mapper"
    /\ Len(mapped) <= MaxChain
    /\ mapped' = Append(mapped, [op |-> "code_to_name",
                                 value |-> _code_to_name(mapped[Len(mapped)].value)])
    /\ MapperUnchanged

MapperNext == Normalize \/ CodeToName

MapperSpec == MapperInit /\ [][MapperNext]_vars

\* the normalizer of the service and the worker, each on its own inputs
PhraseInit == NormInit \/ WorkerInit

PhraseNext == NormNext \/ WorkerNext

PhraseSpec == PhraseInit /\ [][PhraseNext]_vars

(***************************************************************************)
(* Properties.                                                             *)
(***************************************************************************)
Done(t) == pc[t] = "done"
Res(t) == frame[t].result[1]
Tier(t) == hist[t].tier
Raised(t) == hist[t].raised
Tried(t) == Range(hist[t].tried)

\* equal apart from cacheHit (processingTimeMs is not modelled)
SamePayload(a, b) == [a EXCEPT !.cache_hit = FALSE] = [b EXCEPT !.cache_hit = FALSE]

\* the primary path ended in the outer except clause
PrimaryPathRaised(t) == Raised(t) \cap {"primary", "store", "evict"} # {}

\* C1: analyze_text never throws: whatever components are present and
\* whichever of them raise, a call never ends in an exception, a call that
\* has not ended stands at a step that can be taken, and a call that ended
\* holds a result.
C1_NeverThrows ==
    \A t \in Threads :
        /\ pc[t] # "raised"
        /\ pc[t] \in {"idle", "count", "lookup", "hit_count", "hit_get", "primary",
                    "store", "check", "evict", "fallback", "done"}
        /\ pc[t] \in {"store", "check"} => frame[t].result # None
        /\ pc[t] = "evict" => frame[t].oldest_keys # <<>>
        /\ Done(t) => frame[t].result # None /\ Tier(t) # "none"

\* the primary detector and the detector of the fallback both raised, and
\* the call returned the mock result
C1_Witness ==
    \E t \in Threads :
        /\ Done(t)
        /\ Tier(t) = "mock"
        /\ "primary" \in Raised(t)
        /\ Raised(t) \cap {"legacy", "fast"} # {}

PrimaryOut(t) == ~integrated_detector \/ PrimaryPathRaised(t)
LegacyOut(t) == ~legacy_detector \/ "legacy" \in Raised(t)
FastOut(t) == ~fasttext_detector \/ "fast" \in Raised(t)

\* C2 as claimed: the chain is primary -> legacy -> fast -> mock; a tier's
\* result is returned only if every earlier tier was unavailable or raised.
C2_StrictChain ==
    \A t \in Threads : Done(t) =>
        /\ Tier(t) = "legacy" => PrimaryOut(t)
        /\ Tier(t) = "fast" => PrimaryOut(t) /\ LegacyOut(t)
        /\ Tier(t) = "mock" => PrimaryOut(t) /\ LegacyOut(t) /\ FastOut(t)

\* C2 amended: the chain is primary -> secondary -> mock, where the
\* secondary detector is the fast detector if fast_mode is set and the fast
\* detector is available, and the legacy detector otherwise; it is called
\* only if the legacy detector is available.  The first success wins; the
\* secondary result is returned only if the primary tier was unavailable or
\* its path raised; the mock result only if moreover the legacy detector
\* was unavailable or the secondary detector raised.  The other one of
\* legacy and fast is never tried.
C2_Chain ==
    \A t \in Threads : Done(t) /\ Tier(t) # "cache" =>
        LET selected == IF frame[t].fast_mode /\ fasttext_detector
                        THEN "fast" ELSE "legacy"
        IN  /\ hist[t].tried \in {<<>>, <<"primary">>, <<selected>>,
                                  <<"primary", selected>>}
            /\ ("primary" \in Tried(t)) = integrated_detector
            /\ Tier(t) = "primary" =>
                   /\ ~PrimaryPathRaised(t)
                   /\ hist[t].tried = <<"primary">>
            /\ Tier(t) \in {"legacy", "fast"} =>
                   /\ PrimaryOut(t)
                   /\ legacy_detector
                   /\ Tier(t) = selected
                   /\ selected \notin Raised(t)
            /\ Tier(t) = "mock" =>
                   /\ PrimaryOut(t)
                   /\ ~legacy_detector \/ selected \in Raised(t)
                   /\ ~legacy_detector => Tried(t) \subseteq {"primary"}

\* the legacy detector raised, the fast detector is available, and the mock
\* result was returned without trying the fast detector
C2_Witness ==
    \E t \in Threads :
        /\ Done(t)
        /\ Tier(t) = "mock"
        /\ "legacy" \in Raised(t)
        /\ fasttext_detector
        /\ "fast" \notin Tried(t)

\* C3: with no detector available the mock result is returned: its version
\* is not the tag of the primary tier, its confidence is 0.85 and its one
\* phrase spans all words.
C3_MockResult ==
    \A t \in Threads :
        Done(t) /\ ~integrated_detector /\ ~legacy_detector /\ ~fasttext_detector =>
            /\ Tier(t) = "mock"
            /\ Res(t).version # V2_1_2
            /\ Res(t).confidence = 85
            /\ Len(Res(t).phrases) = 1
            /\ Res(t).phrases[1].startIndex = 0
            /\ Res(t).phrases[1].endIndex = Len(Split(frame[t].text)) - 1

\* the tier whose detector produced the result a call returned
ProducedBy(t) == IF Tier(t) = "cache" THEN "primary" ELSE Tier(t)

\* C4: two results produced by different tiers never carry the same version
\* tag.
C4_TagIdentifiesTier ==
    \A t, u \in Threads :
        Done(t) /\ Done(u) /\ ProducedBy(t) # ProducedBy(u) =>
            Res(t).version # Res(u).version

\* C5: when the primary detector succeeds and the cache store does not
\* raise, the result is the primary tier's whichever enrichment stages
\* raise: every enrichment stage that is present was called, tokens,
\* phrases and switch points are those obtained when the stages succeed, and
\* an optimizer that raised leaves contextOptimization absent.
C5_EnrichmentIsolated ==
    \A t \in Threads :
        Done(t) /\ "primary" \in Tried(t) /\ ~PrimaryPathRaised(t) =>
            LET ref == _convert_v2_1_2_result(frame[t].sp_result[1],
                           OptimizationResult, frame[t].text,
                           frame[t].user_languages, frame[t].performance_mode,
                           SWITCHPRINT_VERSION)
            IN  /\ Tier(t) = "primary"
                /\ hist[t].called = {s \in Range(StageOrder) : Present(s)}
                /\ Res(t).tokens = ref.tokens
                /\ Res(t).phrases = ref.phrases
                /\ Res(t).switch_points = ref.switch_points
                /\ Res(t).version = SWITCHPRINT_VERSION
                /\ Res(t).context_optimization =
                       IF "optimizer" \in hist[t].called \ Raised(t)
                       THEN OptimizationResult ELSE None

\* all three enrichment stages raised and the primary result was returned
C5_Witness ==
    \E t \in Threads :
        /\ Done(t)
        /\ Tier(t) = "primary"
        /\ Raised(t) = {"context", "optimizer", "metrics"}

C7_Fifo ==
    \A t \in Threads : Done(t) =>
        LET before == Keys(hist[t].cache0)
            inserted == Append(before, KeyOf(t))
        IN  Keys(cache) =
                IF frame[t].use_cache /\ Tier(t) = "primary"
                THEN IF Len(inserted) > CacheCeiling
                     THEN SubSeq(inserted, EvictBatch + 1, Len(inserted))
                     ELSE inserted
                ELSE before

\* an insertion into a full cache, after a hit on its oldest entry
C7_Witness ==
    \E t \in Threads :
        /\ Done(t)
        /\ frame[t].use_cache
        /\ Tier(t) = "primary"
        /\ Len(hist[t].cache0) = CacheCeiling
        /\ hist[t].cache0[1].value.cache_hit

\* C8 as claimed: in every reachable state the cache holds at most the
\* ceiling.
C8_AlwaysBounded == Len(cache) <= CacheCeiling

\* C8 amended: the new entry is inserted first and the oldest batch is
\* evicted after it, so for calls that do not overlap the cache holds at
\* most the ceiling whenever no insertion is in progress, and one entry more
\* than the ceiling at most during an insertion.
C8_BoundedAtRest ==
    /\ Len(cache) <= CacheCeiling + 1
    /\ (\A t \in Threads : pc[t] \notin {"check", "evict"}) => Len(cache) <= CacheCeiling

\* an insertion has taken the cache over its ceiling
C8_Witness ==
    \E t \in Threads : pc[t] = "check" /\ Len(cache) = CacheCeiling + 1

\* C9: the eviction steps of concurrent calls exclude each other: no two
\* calls evict at once and no eviction finds its key already removed.
C9_CacheCriticalSection ==
    /\ \A t, u \in Threads : t # u => ~(pc[t] = "evict" /\ pc[u] = "evict")
    /\ \A t \in Threads : "evict" \notin Raised(t)

\* C10: a failure to store the result is not surfaced: the call returns the
\* result that the primary tier computed and runs no detector again.
C10_StoreFailureKeepsResult ==
    \A t \in Threads :
        Done(t) /\ Raised(t) \cap {"store", "evict"} # {} =>
            /\ Tier(t) = "primary"
            /\ hist[t].tried = <<"primary">>

RECURSIVE Concat(_)
Concat(seqs) == IF seqs = <<>> THEN <<>> ELSE Head(seqs) \o Concat(Tail(seqs))

RECURSIVE SumLen(_)
SumLen(seqs) == IF seqs = <<>> THEN 0 ELSE Len(Head(seqs)) + SumLen(Tail(seqs))

PhraseWords(phrases) == [i \in 1..Len(phrases) |-> phrases[i].words]

\* C11: for a non-empty input and any raw detector output, the phrases of
\* the primary and of the legacy conversion partition the tokens: the
\* phrases' words in order are the tokens' words, the phrase lengths sum to
\* the number of tokens, the first phrase starts at 0, each phrase starts
\* one past the end of the one before, the last ends at len(tokens) - 1.
C11_PhrasesPartitionTokens ==
    \A t \in Threads :
        Done(t) /\ Tier(t) \in {"primary", "legacy"} /\ ~IsBlank(frame[t].text) =>
            LET tokens == Res(t).tokens
                phrases == Res(t).phrases
                n == Len(phrases)
            IN  /\ tokens # <<>>
                /\ n >= 1
                /\ Concat(PhraseWords(phrases)) = [i \in 1..Len(tokens) |-> tokens[i].word]
                /\ SumLen(PhraseWords(phrases)) = Len(tokens)
                /\ phrases[1].startIndex = 0
                /\ \A i \in 2..n : phrases[i].startIndex = phrases[i - 1].endIndex + 1
                /\ \A i \in 1..n : phrases[i].endIndex =
                                      phrases[i].startIndex + Len(phrases[i].words) - 1
                /\ phrases[n].endIndex = Len(tokens) - 1

\* three tokens in three phrases, from a raw output whose switch points are
\* not in order
C11_Witness ==
    \E t \in Threads :
        /\ Done(t)
        /\ Tier(t) \in {"primary", "legacy"}
        /\ Len(Res(t).tokens) = 3
        /\ Len(Res(t).phrases) = 3
        /\ frame[t].sp_result[1].switch_points = <<2, 1>>

\* C12: in every result the switch-point list has max(len(phrases) - 1, 0)
\* elements and is strictly increasing.
C12_SwitchPointCount ==
    \A t \in Threads : Done(t) =>
        LET sps == Res(t).switch_points
            n == Len(Res(t).phrases)
        IN  /\ Len(sps) = IF n >= 1 THEN n - 1 ELSE 0
            /\ \A i \in 1..Len(sps) - 1 : sps[i] < sps[i + 1]

\* C13: the switch points of a result are exactly the endIndex values of the
\* phrases that are followed by a phrase of another language.
C13_SwitchPointsFromPhrases ==
    \A t \in Threads : Done(t) =>
        LET phrases == Res(t).phrases
        IN  Range(Res(t).switch_points) =
                {phrases[i].endIndex : i \in
                    {j \in 1..Len(phrases) - 1 :
                        phrases[j].language # phrases[j + 1].language}}

\* C14: in every result of every tier userLanguageMatch is true exactly when
\* some user language equals some detected language after case folding, so
\* it is false when there are no user languages.
C14_UserLanguageMatch ==
    \A t \in Threads : Done(t) =>
        Res(t).user_language_match =
            (\E u \in Range(frame[t].user_languages),
                d \in Range(Res(t).detected_languages) : Lower(u) = Lower(d))

\* C15: isUserLanguage of every phrase is a boolean, true exactly when the
\* phrase's language is among the user languages, compared without case.
C15_IsUserLanguage ==
    \A t \in Threads : Done(t) =>
        \A i \in 1..Len(Res(t).phrases) :
            LET phrase == Res(t).phrases[i]
            IN  /\ phrase.isUserLanguage \in {"True", "False"}
                /\ (phrase.isUserLanguage = "True") =
                       (Lower(phrase.language) \in
                           {Lower(u) : u \in Range(frame[t].user_languages)})

\* C16: a request whose text is empty after trimming is rejected before a
\* detector, an enrichment stage or the cache is used, through the endpoint
\* and in a direct call of analyze_text alike: the call invokes nothing,
\* produces no result and leaves the cache as it was.
C16_BlankTextRejected ==
    \A t \in Threads :
        pc[t] # "idle" /\ IsBlank(frame[t].text) =>
            /\ Tried(t) = {}
            /\ hist[t].called = {}
            /\ frame[t].result = None
            /\ cache = hist[t].cache0

\* the orders of a list
Orders(s) ==
    {[i \in 1..Len(s) |-> s[f[i]]] :
        f \in {g \in [1..Len(s) -> 1..Len(s)] :
                  \A i, j \in 1..Len(s) : g[i] = g[j] => i = j}}

\* C17: the cache key does not depend on the order of the user languages: a
\* call with use_cache whose text and mode are cached under some order of
\* its user languages is a hit.
C17_KeyIgnoresLanguageOrder ==
    \A t \in Threads :
        /\ Done(t)
        /\ frame[t].use_cache
        /\ \E p \in Orders(frame[t].user_languages) :
              HasKey(hist[t].cache0,
                     CacheKey(frame[t].text, p, frame[t].performance_mode))
        => Tier(t) = "cache"

\* C18: every value held in the cache has cacheHit = false.
C18_StoredNeverMarked ==
    \A i \in 1..Len(cache) : ~cache[i].value.cache_hit


\* the worker has printed its ready line
Ready == wpc \in {"loop", "serving", "exit0"}
\* the lines printed after the ready line
Responses == Tail(stdout)
\* the lines read so far that are more than white space, in order
NonBlank == SelectSeq(consumed, LAMBDA r : Strip(r.line) # <<>>)
Malformed(r) == JsonLoads(Strip(r.line)) = None
Normal(response) == "tokens" \in DOMAIN response

\* C19: a request line that is not valid JSON is answered by exactly one
\* error line (the "Invalid JSON" one, at the position of the request), and
\* the worker stays in its loop: it leaves the loop only at the end of its
\* input, and a valid request after the malformed line, for which the model
\* does not raise, gets a normal response.
C19_InvalidJsonAnswered ==
    Ready =>
        /\ Len(Responses) <= Len(NonBlank)
        /\ wpc \in {"loop", "exit0"} => Len(Responses) = Len(NonBlank)
        /\ wpc = "exit0" => stdin = <<>>
        /\ \A k \in 1..Len(Responses) :
               /\ Malformed(NonBlank[k]) <=> Responses[k] = [error |-> "Invalid JSON"]
               /\ Predicts(NonBlank[k].line) /\ ~NonBlank[k].raises => Normal(Responses[k])

\* a malformed line was answered with the error and the valid line after it
\* with a result
C19_Witness ==
    /\ wpc = "exit0"
    /\ \E k \in 1..(Len(Responses) - 1) :
           /\ Malformed(NonBlank[k])
           /\ Responses[k] = [error |-> "Invalid JSON"]
           /\ Predicts(NonBlank[k + 1].line)
           /\ Normal(Responses[k + 1])

\* a line in flight that will be answered
InFlight == IF wpc = "serving" /\ Strip(consumed[Len(consumed)].line) # <<>> THEN 1 ELSE 0

\* C20: after the ready line the number of response lines is the number of
\* non-blank lines consumed (less the one being served): every non-blank line
\* gets one response, whatever it holds, and a blank line gets none.
C20_OneResponsePerLine ==
    Ready => Len(Responses) = Len(NonBlank) - InFlight

\* a run that consumed a blank line, a malformed line and a line on which
\* the model raised, and answered all but the blank one
C20_Witness ==
    /\ wpc = "exit0"
    /\ Len(consumed) = MaxLines
    /\ \E i \in 1..Len(consumed) : Strip(consumed[i].line) = <<>>
    /\ \E i \in 1..Len(consumed) : consumed[i].raises
    /\ \E k \in 1..Len(Responses) : Responses[k] = [error |-> "Invalid JSON"]
    /\ Len(Responses) = MaxLines - 1


ReadyLine == [status |-> "ready", engine |-> "FastText"]
InitError == [error |-> "Failed to initialize FastText model"]

\* C21: when the model loads, one ready line is printed and it is the first
\* line of the output; when it does not, the output is one error line, the
\* process has ended with status 1 (nothing more can happen), there is no
\* ready line and no request line has been read or answered.
C21_Startup ==
    /\ wpc = "start" => stdout = <<>> /\ consumed = <<>>
    /\ Ready =>
           /\ model # None
           /\ stdout # <<>>
           /\ stdout[1] = ReadyLine
           /\ \A i \in 2..Len(stdout) : stdout[i] # ReadyLine /\ stdout[i] # InitError
    /\ wpc = "exit1" =>
           /\ model = None
           /\ stdout = <<InitError>>
           /\ consumed = <<>>
           /\ ~ENABLED WorkerNext
    /\ wpc \in {"start", "loop", "serving", "exit0", "exit1"}

\* the model did not load while requests were waiting
C21_Witness ==
    /\ wpc = "exit1"
    /\ Len(stdin) = MaxLines
    /\ stdout = <<InitError>>

\* the positions main() passes through: Starting, Ready, Serving, Terminated
WorkerTransitions ==
    {<<"start", "loop">>, <<"start", "exit1">>, <<"loop", "serving">>,
     <<"serving", "loop">>, <<"loop", "exit0">>}

\* C22: at most one request is in flight; a line is read only when every
\* line read before it has been dealt with; the responses are those of the
\* requests, in the order of the requests; and the worker moves
\* Starting -> Ready -> Serving -> Ready ... -> Terminated only.
C22_HalfDuplex ==
    /\ [](Ready =>
            /\ Len(NonBlank) - Len(Responses) \in {0, 1}
            /\ Len(NonBlank) - Len(Responses) = 1 => wpc = "serving"
            /\ \A k \in 1..Len(Responses) : k <= Len(NonBlank) =>
                   Responses[k] = Respond(model, NonBlank[k].line, NonBlank[k].raises))
    /\ [][/\ consumed' # consumed =>
                 /\ wpc = "loop" /\ wpc' = "serving"
                 /\ Len(Responses) = Len(NonBlank)
                 /\ stdout' = stdout
          /\ wpc' # wpc => <<wpc, wpc'>> \in WorkerTransitions]_vars

\* three different requests were answered in their order
C22_Witness ==
    /\ wpc = "exit0"
    /\ Len(Responses) = MaxLines
    /\ \A j, k \in 1..Len(Responses) : j # k => Responses[j] # Responses[k]
    /\ \A k \in 1..Len(Responses) :
           Responses[k] = Respond(model, NonBlank[k].line, NonBlank[k].raises)


\* C23: in every successful response of the worker the phrases partition the
\* token sequence and carry 0-based inclusive token indices: the first
\* phrase starts at 0, each phrase ends at startIndex + len(words) - 1, each
\* next phrase starts one past the end of the one before, the last ends at
\* len(tokens) - 1.
C23_WorkerPhrasesPartition ==
    Ready =>
        \A k \in 1..Len(Responses) : Normal(Responses[k]) =>
            LET tokens == Responses[k].tokens
                phrases == Responses[k].phrases
                n == Len(phrases)
            IN  /\ n >= 1
                /\ Concat(PhraseWords(phrases)) = [i \in 1..Len(tokens) |-> tokens[i].word]
                /\ phrases[1].startIndex = 0
                /\ \A i \in 2..n : phrases[i].startIndex = phrases[i - 1].endIndex + 1
                /\ \A i \in 1..n : phrases[i].endIndex =
                                      phrases[i].startIndex + Len(phrases[i].words) - 1
                /\ phrases[n].endIndex = Len(tokens) - 1

\* the number of tokens before phrase i + 1: one more than the index of the
\* last word of phrase i
TokensThrough(phrases, i) == SumLen(PhraseWords(SubSeq(phrases, 1, i)))

\* C24: in every successful response of the worker switchPoints has
\* len(phrases) - 1 elements, is strictly increasing, and element i is the
\* token index of the last word of phrase i.
C24_WorkerSwitchPoints ==
    Ready =>
        \A k \in 1..Len(Responses) : Normal(Responses[k]) =>
            LET phrases == Responses[k].phrases
                switchPoints == Responses[k].switchPoints
            IN  /\ Len(switchPoints) = Len(phrases) - 1
                /\ \A i \in 2..Len(switchPoints) : switchPoints[i - 1] < switchPoints[i]
                /\ \A i \in 1..Len(switchPoints) :
                       switchPoints[i] = TokensThrough(phrases, i) - 1

\* the 'languages' of the request of a line, [] when it has none
LanguagesOf(line) ==
    LET request == JsonLoads(Strip(line))[1]
    IN  IF request.languages = None THEN <<>> ELSE request.languages[1]

\* C25: userLanguageMatch of a successful response is true exactly if some
\* language of the request, normalized by the mapper, is the code of some
\* language of the detectedLanguages list of the response, top-ranked or
\* not; it is false when the request names no language.
C25_WorkerUserLanguageMatch ==
    Ready =>
        \A k \in 1..Len(Responses) : Normal(Responses[k]) =>
            LET user_languages == LanguagesOf(NonBlank[k].line)
                reported == Responses[k].detectedLanguages
            IN  Responses[k].userLanguageMatch <=>
                    \E i \in 1..Len(user_languages), j \in 1..Len(reported) :
                        /\ j <= Len(model[1].labels)
                        /\ reported[j] = _code_to_name(model[1].labels[j].language)
                        /\ _normalize_language(user_languages[i]) = model[1].labels[j].language

\* C26: detectedLanguages of a successful response lists every whole-text
\* prediction of the model (at most the k = 5 asked for) in rank order.
C26_WorkerDetectedLanguages ==
    Ready =>
        \A k \in 1..Len(Responses) : Normal(Responses[k]) =>
            /\ Len(model[1].labels) <= 5
            /\ Responses[k].detectedLanguages =
                   [i \in 1..Len(model[1].labels) |-> _code_to_name(model[1].labels[i].language)]


\* the raw detector output a conversion was given
RawOf(t) == frame[t].sp_result[1]
\* the number of distinct switch-point indices j with 0 <= j <= i
SwitchesThrough(switch_points, i) ==
    Cardinality({j \in Range(switch_points) : 0 <= j /\ j <= i})
Smaller(a, b) == IF a < b THEN a ELSE b

\* C27: primary tier, more than one detected language and switch points
\* supplied: the language of word i is detected_languages[k mod n], k the
\* number of distinct supplied switch-point indices in 0..i, so that a
\* switch point at index 0 advances the language before the first word.
C27_CyclicAssignment ==
    \A t \in Threads :
        Done(t) /\ Tier(t) = "primary" /\ Len(RawOf(t).detected_languages) > 1
                /\ RawOf(t).switch_points # <<>> =>
            LET detected == RawOf(t).detected_languages
                tokens == Res(t).tokens
            IN  /\ Len(tokens) = Len(Split(frame[t].text))
                /\ \A i \in 0..(Len(tokens) - 1) :
                       LET k == SwitchesThrough(RawOf(t).switch_points, i)
                       IN  /\ tokens[i + 1].lang = detected[(k % Len(detected)) + 1]
                           /\ tokens[i + 1].language = tokens[i + 1].lang

\* two languages, switch points at 0 and 1: the first word has the second
\* language and the second word the first one again
C27_Witness ==
    \E t \in Threads :
        /\ Done(t) /\ Tier(t) = "primary"
        /\ RawOf(t).detected_languages = <<english, Spanish>>
        /\ RawOf(t).switch_points = <<1, 0>>
        /\ Len(Res(t).tokens) = 3
        /\ Res(t).tokens[1].lang = Spanish
        /\ Res(t).tokens[2].lang = english
        /\ Res(t).tokens[3].lang = english

\* C28: legacy tier, more than one detected language and switch points
\* supplied, as indices or as (index, language) pairs: the language of word
\* i is detected_languages[min(k, n - 1)], k the number of distinct supplied
\* switch-point indices in 0..i; the language index never decreases and
\* never exceeds n - 1.
C28_MonotonicAssignment ==
    \A t \in Threads :
        Done(t) /\ Tier(t) = "legacy" /\ Len(RawOf(t).detected_languages) > 1
                /\ RawOf(t).switch_points # <<>> =>
            LET detected == RawOf(t).detected_languages
                tokens == Res(t).tokens
            IN  /\ Len(tokens) = Len(Split(frame[t].text))
                /\ \A i \in 0..(Len(tokens) - 1) :
                       LET k == SwitchesThrough(RawOf(t).switch_points, i)
                       IN  /\ tokens[i + 1].lang = detected[Smaller(k, Len(detected) - 1) + 1]
                           /\ tokens[i + 1].language = tokens[i + 1].lang

\* two languages, switch points at 0 and 1: the index stops at the second
\* language
C28_Witness ==
    \E t \in Threads :
        /\ Done(t) /\ Tier(t) = "legacy"
        /\ RawOf(t).detected_languages = <<english, Spanish>>
        /\ RawOf(t).switch_points = <<1, 0>>
        /\ Len(Res(t).tokens) = 3
        /\ Res(t).tokens[1].lang = Spanish
        /\ Res(t).tokens[2].lang = Spanish
        /\ Res(t).tokens[3].lang = Spanish


\* every token of a phrase has the phrase's language, the phrases cover the
\* tokens, and adjacent phrases differ in language
MaximalRuns(tokens, phrases) ==
    /\ SumLen(PhraseWords(phrases)) = Len(tokens)
    /\ \A i \in 1..Len(phrases) :
           \A j \in 1..Len(phrases[i].words) :
                  /\ TokensThrough(phrases, i - 1) + j <= Len(tokens)
                  /\ tokens[TokensThrough(phrases, i - 1) + j].language = phrases[i].language
                  /\ tokens[TokensThrough(phrases, i - 1) + j].word = phrases[i].words[j]
    /\ \A i \in 2..Len(phrases) : phrases[i].language # phrases[i - 1].language

\* C29: phrases are maximal runs, in every result of the service's
\* normalizer and in every successful response of the worker: every token
\* of a phrase has the phrase's language, no two adjacent phrases have the
\* same language, and the last phrase is emitted.
C29_MaximalRuns ==
    /\ \A t \in Threads : Done(t) => MaximalRuns(Res(t).tokens, Res(t).phrases)
    /\ Ready =>
           \A k \in 1..Len(Responses) : Normal(Responses[k]) =>
               MaximalRuns(Responses[k].tokens, Responses[k].phrases)

\* the worker answered with three tokens of one language in one phrase
C29_Witness ==
    /\ Ready
    /\ \E k \in 1..Len(Responses) :
           /\ Normal(Responses[k])
           /\ Len(Responses[k].tokens) = 3
           /\ Len(Responses[k].phrases) = 1
           /\ Len(Responses[k].phrases[1].words) = 3


\* C30: the mapper is bidirectional.  For a listed language name, the code
\* it is normalized to has a name that is that language again, and
\* normalizing that name gives the same code (code -> name -> code).
C30_MapperRoundTrip ==
    (/\ Len(mapped) >= 3
     /\ mapped[1].value \in ListedNames
     /\ mapped[2].op = "normalize"
     /\ mapped[3].op = "code_to_name") =>
        /\ Lower(mapped[3].value) = mapped[1].value
        /\ Len(mapped) >= 4 /\ mapped[4].op = "normalize" =>
               mapped[4].value = mapped[2].value


\* C31: clear_cache empties the cache and leaves everything else as it was,
\* total_requests and cache_hits included; a request that finds the cache
\* empty is a miss: its result has cacheHit = false and a detector was
\* invoked for it (the primary one when there is one).
C31_ClearCacheOnly ==
    /\ [][Quiet(Threads) /\ cache' # cache =>
            /\ cache' = <<>>
            /\ cache_hits' = cache_hits
            /\ total_requests' = total_requests
            /\ UNCHANGED <<SWITCHPRINT_AVAILABLE, service, pc, frame, hist>>]_vars
    /\ [](\A t \in Threads : Done(t) /\ hist[t].cache0 = <<>> =>
            /\ Tier(t) # "cache"
            /\ ~Res(t).cache_hit
            /\ Tried(t) # {}
            /\ integrated_detector => "primary" \in Tried(t))

\* a key was stored and hit, the cache was cleared, and the next request
\* with use_cache was answered by the primary detector
C31_Witness ==
    \E t \in Threads :
        /\ Done(t)
        /\ frame[t].use_cache
        /\ hist[t].cache0 = <<>>
        /\ cache_hits >= 1
        /\ Tier(t) = "primary"
        /\ ~Res(t).cache_hit


\* C32: a cache hit invokes no detector and no enrichment stage and leaves
\* the cached keys and their order as they were; the entries of the other
\* keys are untouched and the entry of the key differs in cacheHit only (it
\* is the returned result); of the counters, the hit path writes
\* total_requests (one more) and cache_hits (one more) and nothing else.
C32_HitTouchesNothing ==
    /\ [](\A t \in Threads : Done(t) /\ Tier(t) = "cache" =>
            /\ hist[t].tried = <<>>
            /\ hist[t].called = {}
            /\ Raised(t) = {}
            /\ Keys(cache) = Keys(hist[t].cache0)
            /\ \A i \in 1..Len(cache) :
                   IF cache[i].key = KeyOf(t)
                   THEN /\ SamePayload(cache[i].value, hist[t].cache0[i].value)
                        /\ Res(t) = cache[i].value
                        /\ Res(t).cache_hit
                   ELSE cache[i] = hist[t].cache0[i])
    /\ [][\A t \in Threads :
            /\ pc[t] = "hit_count" =>
                   /\ cache_hits' = cache_hits + 1
                   /\ UNCHANGED <<cache, total_requests, service, frame, hist>>
            /\ pc[t] = "hit_get" =>
                   UNCHANGED <<cache_hits, total_requests, service>>
            /\ pc[t] = "lookup" /\ pc'[t] = "hit_count" =>
                   /\ total_requests = frame[t].tmp + 1
                   /\ UNCHANGED <<cache, cache_hits, total_requests, service>>]_vars

\* a hit on the oldest of several cached keys
C32_Witness ==
    \E t \in Threads :
        /\ Done(t)
        /\ Tier(t) = "cache"
        /\ Len(cache) >= 2
        /\ cache[1].key = KeyOf(t)
        /\ Res(t).cache_hit


\* what the primary tier returns for a request
PrimaryResults(r) ==
    {_convert_v2_1_2_result(sp, o, r.text, r.user_languages, r.performance_mode,
                            SWITCHPRINT_VERSION) :
        sp \in PrimaryOutputs, o \in {None, OptimizationResult}}

\* what the legacy, fast and mock tiers return for a request
FallbackResults(r) ==
    {_convert_legacy_result(sp, r.text, r.user_languages) : sp \in LegacyOutputs}
        \cup {_get_mock_result(r.text, r.user_languages)}

\* C33: every cache entry holds, under the key of a request, a result of the
\* primary tier for that request, and never one of the legacy, fast or mock
\* tier; a call that a fallback tier answers leaves the cache as it found
\* it; a call with use_cache = false never reads the cache (it is answered
\* by a detector also when its key is cached), never inserts and never
\* evicts.
C33_OnlyPrimaryStored ==
    /\ \A i \in 1..Len(cache) :
           \E r \in Requests :
               /\ cache[i].key = CacheKey(r.text, r.user_languages, r.performance_mode)
               /\ \E p \in PrimaryResults(r) : SamePayload(cache[i].value, p)
               /\ \A f \in FallbackResults(r) : ~SamePayload(cache[i].value, f)
    /\ \A t \in Threads :
           /\ pc[t] \in {"hit_count", "hit_get", "store", "check", "evict"} =>
                  frame[t].use_cache
           /\ pc[t] \in {"store", "check", "evict"} => integrated_detector
           /\ Done(t) /\ Tier(t) \in {"legacy", "fast", "mock"} => cache = hist[t].cache0
           /\ Done(t) /\ ~frame[t].use_cache =>
                  /\ cache = hist[t].cache0
                  /\ Tier(t) # "cache"
                  /\ ~Res(t).cache_hit

\* a call without use_cache, for a key that is cached, was answered by the
\* primary detector and left the cache as it was
C33_Witness ==
    \E t \in Threads :
        /\ Done(t)
        /\ ~frame[t].use_cache
        /\ HasKey(hist[t].cache0, KeyOf(t))
        /\ Tier(t) = "primary"
        /\ cache = hist[t].cache0


\* the invocations started since the service was in its initial state of
\* CountSpec, where each thread calls once, and those that returned a hit
Started == {t \in Threads : pc[t] # "idle"}
ReturnedHit == {t \in Threads : Done(t) /\ Tier(t) = "cache"}

\* C34: under any interleaving, total_requests is the number of invocations
\* started (once none of them stands before its increment), cache_hits the
\* number of invocations that returned a hit (once none of them stands
\* between the increment and the return), and cache_hits <= total_requests.
C34_CountersConsistent ==
    /\ (\A t \in Threads : pc[t] # "count") =>
           total_requests = Len(WarmCache) + Cardinality(Started)
    /\ (\A t \in Threads : pc[t] \notin {"hit_count", "hit_get"}) =>
           cache_hits = Cardinality(ReturnedHit)
    /\ cache_hits <= total_requests


\* C35: requests that differ in text, user languages or mode have different
\* cache keys, also when the separators occur in them, so that a hit
\* returns a result computed for the request's own text, languages and mode.
C35_KeyInjective ==
    \A t \in Threads : Done(t) /\ Tier(t) = "cache" =>
        /\ \E p \in PrimaryResults(frame[t]) : SamePayload(Res(t), p)
        /\ \A r \in KeyRequests :
               CacheKey(r.text, r.user_languages, r.performance_mode) = KeyOf(t) =>
                   /\ r.text = frame[t].text
                   /\ r.user_languages = frame[t].user_languages
                   /\ r.performance_mode = frame[t].performance_mode

\* C36: a result already returned to a caller is never altered by a later
\* call.  A caller that was handed a computed result (no hit) holds a
\* result whose cache_hit is false, whatever the other caller does
\* afterwards, and two callers answered by hits on the same key do not hold
\* one shared object.
C36_ReturnedResultStable ==
    /\ \A t \in Threads : Done(t) /\ Tier(t) # "cache" => ~Res(t).cache_hit
    /\ \A t, u \in Threads :
           t # u /\ Done(t) /\ Done(u) /\ Tier(t) = "cache" /\ Tier(u) = "cache"
               => ~(hist[t].alias /\ Aliased(u, KeyOf(t)))

=============================================================================
